---- MODULE Spec2Model ----
(***************************************************************************)
(* nodeseek-bot: the content processing pipeline (jobs/pipeline.py) over   *)
(* its SQLite storage (storage/db.py, storage/schema.py).                  *)
(*                                                                         *)
(* The database is the persistent state; the AppContext fields and the     *)
(* locals of a process_one run are the in-memory state, lost on restart.   *)
(* process_one is an asyncio coroutine: it is modelled as one step per     *)
(* awaited storage call / network call, because the other tasks of the     *)
(* event loop (rss_job, the Telegram handlers) run between those awaits.   *)
(*                                                                         *)
(* Timestamps: every write stamps updated_at / labeled_at with now_utc().  *)
(* Only the ORDER of these stamps is observed by the code (ORDER BY ...    *)
(* ASC), so a column of timestamps is kept as the sequence of row ids in   *)
(* ascending timestamp order; writing "now" moves the id to the end.       *)
(***************************************************************************)
EXTENDS Integers, Sequences, FiniteSets, TLC

(* ----------------------------- bounds ---------------------------------- *)
\* distinct feed entries (canonical URLs) the feed announces
NumItems == 2
\* storage-write / send exceptions injected over a behaviour
MaxFaults == 1
\* process restarts over a behaviour
MaxRestarts == 1
\* /reprocess commands over a behaviour
MaxResets == 1
\* label button presses over a behaviour
MaxLabelOps == 1
\* largest alert threshold a configuration sets
MaxAlertN == 2
\* distinct titles a feed entry is announced with
NumTitles == 2
\* cleanup_job runs over a behaviour
MaxCleanups == 1
\* last clock value (seconds)
MaxTime == 5
\* largest min-interval / login backoff a configuration sets (seconds)
MaxInterval == 2
\* fetch_best_effort / acquire / next_allowed_in_seconds calls over a behaviour
MaxCalls == 3
\* longest run of consecutive failures a counter follows
MaxStreak == 2
\* alerts of one streak that are counted
MaxAlerts == 2
\* largest AI_MAX_RETRIES a configuration sets
MaxRetries == 1
\* most runs of equal labels in a label history handed to _compute_best_threshold
MaxGroups == 3
\* longest text handed to _chunk_text
MaxTextLen == 2010

(* ------------------------- program constants --------------------------- *)
\* HttpPostFetcher._get: stop_after_attempt(3)
GetAttempts == 3
\* _chunk_text: max(2000, chunk_chars)
MinChunk == 2000
\* summarize: max(1000, max_input_chars)
MaxCharsFloor == 1000
STATUS_NEW == "NEW"
STATUS_FETCHED == "FETCHED"
STATUS_SUMMARIZED == "SUMMARIZED"
STATUS_SCORED == "SCORED"
STATUS_NOTIFIED == "NOTIFIED"
STATUS_IGNORED == "IGNORED"
STATUS_FAILED == "FAILED"

CONF_RSS_ONLY == "RSS_ONLY"
CONF_FULLTEXT_HTTP == "FULLTEXT_HTTP"
CONF_FULLTEXT_BROWSER == "FULLTEXT_BROWSER"

ERROR_LOGIN_REQUIRED == "LOGIN_REQUIRED"
ERROR_ANTIBOT == "ANTIBOT"
ERROR_PARSE_FAIL == "PARSE_FAIL"
ERROR_TIMEOUT == "TIMEOUT"
ERROR_HTTP == "HTTP_ERROR"
ERROR_UNKNOWN == "UNKNOWN"

\* a terminal set that also holds FAILED
TerminalWithFailed ==
    {STATUS_FETCHED, STATUS_SUMMARIZED, STATUS_SCORED, STATUS_NOTIFIED, STATUS_IGNORED,
     STATUS_FAILED}

_TERMINAL_STATUSES ==
    {STATUS_FETCHED, STATUS_SUMMARIZED, STATUS_SCORED, STATUS_NOTIFIED, STATUS_IGNORED}

_LABEL_USEFUL == "useful"
_LABEL_USELESS == "useless"

_MIN_LABELS_TO_AUTOFILTER == 10000

\* float("inf"): larger than every score the engine produces
Inf == 1000000

\* RuleEngine._compile: default static score_threshold
score_threshold == 18
\* RuleEngine.score: sentinel totals of the short-circuit decisions
BlacklistScore == -999
WhitelistScore == 999

\* Python None / SQL NULL, and a present value
None == <<>>
Some(x) == <<x>>

(* ------------------------------ state ---------------------------------- *)
VARIABLES
    posts,          \* table posts: id -> [guid, url_hash, title, status, source_confidence]
                    \* (title stands for title, published_at and rss_summary)
    updOrder,       \* post ids in ascending updated_at order
    contents,       \* ids having a contents row
    fetch_attempts, \* id -> number of fetch_attempts rows
    ai_summaries,   \* ids having an ai_summaries row
    scores,         \* table scores: id -> [score_total, decision]
    deliveries,     \* id -> number of deliveries rows for (id, target_chat_id)
    labels,         \* table labels in ascending labeled_at order: <<[post_id, label]>>
    labelHist,      \* label rows of posts older than the modelled feed window
    fingerprints,   \* table fingerprints: url_hash -> [last_decision]
    fpOrder,        \* fingerprint url_hashes in ascending last_seen_at order
    seq,            \* sqlite_sequence of posts: the last AUTOINCREMENT id given out
    paused,         \* AppContext.paused
    workers,        \* the process_one invocations that may run (process_job is one)
    pc,             \* position of each process_one invocation
    run,            \* locals of each process_one invocation
    stats,          \* RuntimeStats.consecutive_{fetch,login,ai}_failures
    alert_n,        \* Config.alert_n_fetch, alert_n_login, alert_n_ai
    alerted,        \* history: per counter, alerts sent since it was last zero
    sent,           \* history: notification sends per post to target_chat_id
    wasReset,       \* history: posts that reset_post was applied to
    owed,           \* history: per post, the items that were pending when its
                    \* last run ended with the post still queued and that have
                    \* not been taken since
    faults, restarts, resets, labelOps,  \* budget counters of the bounds
    pruned,         \* history: url_hashes whose post row cleanup deleted
    cleanups,       \* budget counter of MaxCleanups
    clock,          \* time.time() / time.monotonic(), in seconds
    crawler,        \* CrawlerService: its settings and its FulltextDisabledState
    limiter,        \* MinIntervalLimiter: its settings and next_allowed_monotonic
    fcall,          \* the fetch_best_effort call in progress: position and locals
    svc,            \* history of the crawler and the limiter: the last disabling
                    \* event, the grant times, the last next_allowed_in_seconds
                    \* result, the calls made
    aic,            \* OpenAICompatClient: its settings and the summarize call in
                    \* progress (position, requests made, responses met)
    chk,            \* a _chunk_text call: its inputs and the chunks returned, and
                    \* the _summarize_long_text call that made it
    rcall,          \* a RuleEngine.score call: the rules, its inputs and its result
    tcall,          \* a _compute_best_threshold call: the labeled scores and the
                    \* threshold returned
    acq,            \* concurrent limiter.acquire() calls: the holder of the
                    \* limiter's lock, each caller's position and wake-up time
    acall,          \* the full-text decision of one process_one run: its inputs,
                    \* the decision and the crawler calls made
    fcalls          \* overlapping fetch_best_effort calls: each caller's position
                    \* and the attempts it made

dbVars == <<posts, updOrder, contents, fetch_attempts, ai_summaries, scores,
            deliveries, labels, labelHist, fingerprints, fpOrder, seq>>
memVars == <<paused, workers, pc, run>>
histVars == <<sent, wasReset, owed>>
budgetVars == <<faults, restarts, resets, labelOps>>
statVars == <<stats, alert_n, alerted>>
svcVars == <<clock, crawler, limiter, fcall, svc>>
aiVars == <<aic, chk, rcall, tcall, acq, acall, fcalls>>
auxVars == <<pruned, cleanups, svcVars, aiVars>>
vars == <<dbVars, memVars, histVars, budgetVars, statVars, auxVars>>

PostIds == 1..NumItems
\* "row is None": no post id
NoPost == 0

(* ------------------------------ helpers -------------------------------- *)
RECURSIVE SeqWithout(_, _)
SeqWithout(s, x) ==
    IF s = <<>> THEN <<>>
    ELSE IF Head(s) = x THEN SeqWithout(Tail(s), x)
    ELSE <<Head(s)>> \o SeqWithout(Tail(s), x)

\* "UPDATE ... SET updated_at=now": the row becomes the most recently updated
Touch(order, id) == Append(SeqWithout(order, id), id)

\* a URL: the page it names, and whether it carries utm_* parameters or a
\* fragment
Urls == [page : 1..NumItems, utm : BOOLEAN]

\* utils.canonicalize_url: drops the utm_* parameters and the fragment
canonicalize_url(url) == [url EXCEPT !.utm = FALSE]

\* the feed: entry i has canonical URL i; odd entries carry a guid
FeedItem(i) == [guid |-> IF i % 2 = 1 THEN Some(i) ELSE None,
                url |-> [page |-> i, utm |-> FALSE], title |-> 1]
FeedItems == {FeedItem(i) : i \in 1..NumItems}

\* any entry a feed may announce: its guid need not go with its URL
UpsertItems == [guid : {None} \cup {Some(g) : g \in 1..NumItems},
                url : Urls, title : 1..NumTitles]

\* utils.sha256_hex o utils.canonicalize_url: sha256 is taken as injective, a
\* hash is identified with the page of the canonical URL it was computed from
UrlHash(url) == canonicalize_url(url).page

InQueue(id) == id \in DOMAIN posts /\ posts[id].status \in {STATUS_NEW, STATUS_FAILED}

(* ------------------------- storage: reads ------------------------------ *)
\* Storage.take_next_for_processing:
\* SELECT id FROM posts WHERE status IN (NEW, FAILED) ORDER BY updated_at ASC LIMIT 1
RECURSIVE FirstQueued(_, _)
FirstQueued(ps, order) ==
    IF order = <<>> THEN NoPost
    ELSE IF ps[Head(order)].status \in {STATUS_NEW, STATUS_FAILED} THEN Head(order)
    ELSE FirstQueued(ps, Tail(order))

\* a take that also re-queues items left in SCORED
RECURSIVE FirstQueuedOrScored(_, _)
FirstQueuedOrScored(ps, order) ==
    IF order = <<>> THEN NoPost
    ELSE IF ps[Head(order)].status \in {STATUS_NEW, STATUS_FAILED, STATUS_SCORED}
         THEN Head(order)
    ELSE FirstQueuedOrScored(ps, Tail(order))

TakeNextForProcessing(ps, order) == FirstQueued(ps, order)

\* Storage.has_delivery
HasDelivery(dl, id) == dl[id] > 0

\* label rows are kept run-length encoded: a group is n rows with the same
\* joined score_total and the same y (1 = useful, 0 = useless)
RECURSIVE GroupRows(_)
GroupRows(g) == IF g = <<>> THEN 0 ELSE Head(g).n + GroupRows(Tail(g))

\* Storage.count_labels: SELECT COUNT(1) FROM labels
CountLabels(hist, lbls) == GroupRows(hist.groups) + hist.unscored + Len(lbls)

\* the modelled label rows JOIN scores, in labeled_at order
RECURSIVE JoinScores(_, _)
JoinScores(lbls, sc) ==
    IF lbls = <<>> THEN <<>>
    ELSE LET l == Head(lbls)
             rest == JoinScores(Tail(lbls), sc)
         IN IF l.post_id \in DOMAIN sc
            THEN <<[score |-> sc[l.post_id].score_total,
                    y |-> IF l.label = _LABEL_USEFUL THEN 1 ELSE 0,
                    n |-> 1]>> \o rest
            ELSE rest

\* LIMIT ?
RECURSIVE LimitRows(_, _)
LimitRows(g, limit) ==
    IF g = <<>> \/ limit <= 0 THEN <<>>
    ELSE IF Head(g).n <= limit
         THEN <<Head(g)>> \o LimitRows(Tail(g), limit - Head(g).n)
         ELSE <<[Head(g) EXCEPT !.n = limit]>>

\* Storage.get_labeled_scores(limit): labels JOIN scores ORDER BY labeled_at ASC LIMIT ?
GetLabeledScores(hist, lbls, sc, limit) ==
    LimitRows(hist.groups \o JoinScores(lbls, sc), limit)

(* ---------------------- adaptive delivery threshold -------------------- *)
RECURSIVE CountAt(_, _, _)
CountAt(g, s, y) ==
    IF g = <<>> THEN 0
    ELSE (IF Head(g).score = s /\ Head(g).y = y THEN Head(g).n ELSE 0)
         + CountAt(Tail(g), s, y)

RECURSIVE TotalPos(_)
TotalPos(g) ==
    IF g = <<>> THEN 0
    ELSE (IF Head(g).y = 1 THEN Head(g).n ELSE 0) + TotalPos(Tail(g))

ScoresOf(g) == {g[i].score : i \in DOMAIN g}
MaxOf(S) == CHOOSE x \in S : \A z \in S : z <= x
MinOf(S) == CHOOSE x \in S : \A z \in S : x <= z

\* a sweep that keeps the last cutoff among those of equal F1
RECURSIVE SweepF1KeepLast(_, _, _, _, _, _, _)
SweepF1KeepLast(g, todo, tp, fp, bestNum, bestDen, bestThr) ==
    IF todo = {} THEN bestThr
    ELSE LET score_val == MaxOf(todo)
             tp2 == tp + CountAt(g, score_val, 1)
             fp2 == fp + CountAt(g, score_val, 0)
             fn == TotalPos(g) - tp2
             denom == 2 * tp2 + fp2 + fn
             f1Num == IF denom > 0 THEN 2 * tp2 ELSE 0
             f1Den == IF denom > 0 THEN denom ELSE 1
             better == f1Num * bestDen >= bestNum * f1Den
         IN SweepF1KeepLast(g, todo \ {score_val}, tp2, fp2,
                            IF better THEN f1Num ELSE bestNum,
                            IF better THEN f1Den ELSE bestDen,
                            IF better THEN score_val ELSE bestThr)

\* the while loop of _compute_best_threshold: todo are the distinct scores not
\* yet swept (descending), best_f1 is kept as the fraction bestNum / bestDen
RECURSIVE SweepF1(_, _, _, _, _, _, _)
SweepF1(g, todo, tp, fp, bestNum, bestDen, bestThr) ==
    IF todo = {} THEN bestThr
    ELSE LET score_val == MaxOf(todo)
             tp2 == tp + CountAt(g, score_val, 1)
             fp2 == fp + CountAt(g, score_val, 0)
             fn == TotalPos(g) - tp2
             denom == 2 * tp2 + fp2 + fn
             f1Num == IF denom > 0 THEN 2 * tp2 ELSE 0
             f1Den == IF denom > 0 THEN denom ELSE 1
             better == f1Num * bestDen > bestNum * f1Den
         IN SweepF1(g, todo \ {score_val}, tp2, fp2,
                    IF better THEN f1Num ELSE bestNum,
                    IF better THEN f1Den ELSE bestDen,
                    IF better THEN score_val ELSE bestThr)

\* a threshold computed without the guard for histories without useful labels
ThresholdNoUselessGuard(labeled) ==
    IF labeled = <<>> THEN Inf
    ELSE IF TotalPos(labeled) >= GroupRows(labeled) THEN MinOf(ScoresOf(labeled))
    ELSE SweepF1(labeled, ScoresOf(labeled), 0, 0, -1, 1, MaxOf(ScoresOf(labeled)))

\* pipeline._compute_best_threshold
_compute_best_threshold(labeled) ==
    IF labeled = <<>> THEN Inf
    ELSE IF TotalPos(labeled) <= 0 THEN Inf
    ELSE IF TotalPos(labeled) >= GroupRows(labeled) THEN MinOf(ScoresOf(labeled))
    ELSE SweepF1(labeled, ScoresOf(labeled), 0, 0, -1, 1, MaxOf(ScoresOf(labeled)))

\* label histories for a call on its own: up to MaxGroups runs of one or two
\* labels of one score and one kind
ThresholdGroups == [score : {5, 8, 10}, y : {0, 1}, n : 1..2]
ThresholdInputs ==
    UNION {[1..k -> ThresholdGroups] : k \in 0..MaxGroups}

NoThresholdCall == [labeled |-> <<>>, result |-> None]

\* thr = await _compute_best_threshold(labeled)
ComputeBestThreshold ==
    /\ tcall.result = None
    /\ tcall' = [tcall EXCEPT !.result = Some(_compute_best_threshold(tcall.labeled))]

\* the threshold local of _should_deliver (None when the function returned
\* before computing it)
DeliverThreshold(decision, n_labels, labeled) ==
    IF decision = "BLACKLIST" \/ n_labels < _MIN_LABELS_TO_AUTOFILTER THEN None
    ELSE Some(_compute_best_threshold(labeled))

\* _should_deliver without its BLACKLIST guard
ShouldDeliverNoBlacklist(score_total, decision, n_labels, labeled) ==
    IF n_labels < _MIN_LABELS_TO_AUTOFILTER THEN TRUE
    ELSE IF _compute_best_threshold(labeled) = Inf THEN FALSE
    ELSE IF decision = "WHITELIST" THEN TRUE
    ELSE score_total >= _compute_best_threshold(labeled)

\* _should_deliver without its cold-start branch
ShouldDeliverNoColdStart(score_total, decision, n_labels, labeled) ==
    IF decision = "BLACKLIST" THEN FALSE
    ELSE IF _compute_best_threshold(labeled) = Inf THEN FALSE
    ELSE IF decision = "WHITELIST" THEN TRUE
    ELSE score_total >= _compute_best_threshold(labeled)

\* _should_deliver comparing against the static threshold's decision instead
\* of the adaptive threshold
ShouldDeliverStaticOnly(score_total, decision, n_labels, labeled) ==
    IF decision = "BLACKLIST" THEN FALSE
    ELSE IF n_labels < _MIN_LABELS_TO_AUTOFILTER THEN TRUE
    ELSE IF _compute_best_threshold(labeled) = Inf THEN FALSE
    ELSE IF decision = "WHITELIST" THEN TRUE
    ELSE score_total >= 0

\* _should_deliver with the WHITELIST test ahead of the unbounded-threshold test
ShouldDeliverWhitelistFirst(score_total, decision, n_labels, labeled) ==
    IF decision = "BLACKLIST" THEN FALSE
    ELSE IF n_labels < _MIN_LABELS_TO_AUTOFILTER THEN TRUE
    ELSE IF decision = "WHITELIST" THEN TRUE
    ELSE IF _compute_best_threshold(labeled) = Inf THEN FALSE
    ELSE score_total >= _compute_best_threshold(labeled)

\* pipeline._should_deliver, on the values its storage reads returned
_should_deliver(score_total, decision, n_labels, labeled) ==
    IF decision = "BLACKLIST" THEN FALSE
    ELSE IF n_labels < _MIN_LABELS_TO_AUTOFILTER THEN TRUE
    ELSE IF _compute_best_threshold(labeled) = Inf THEN FALSE
    ELSE IF decision = "WHITELIST" THEN TRUE
    ELSE score_total >= _compute_best_threshold(labeled)

(* ----------------------------- scoring --------------------------------- *)
\* what RuleEngine.score looks at: a blacklist keyword / blocked-title hit, a
\* whitelist keyword hit, and the total of the weighted rules
ScoreTotals == {10, 20}
TextFeatures ==
    {[bl |-> TRUE, wl |-> FALSE, total |-> 10],
     [bl |-> FALSE, wl |-> TRUE, total |-> 10]}
    \cup {[bl |-> FALSE, wl |-> FALSE, total |-> t] : t \in ScoreTotals}

\* RuleEngine.score: the short circuits and the final decision
RuleScore(f) ==
    IF f.bl THEN [score_total |-> BlacklistScore, decision |-> "BLACKLIST"]
    ELSE IF f.wl THEN [score_total |-> WhitelistScore, decision |-> "WHITELIST"]
    ELSE [score_total |-> f.total,
          decision |-> IF f.total >= score_threshold THEN "PUSH" ELSE "IGNORE"]

\* strings are sequences of characters; str.casefold and re.IGNORECASE on the
\* characters used
Fold(ch) == IF ch = "A" THEN "a" ELSE ch
casefold(str) == [i \in 1..Len(str) |-> Fold(str[i])]

\* Python's "kw in hay"
Contains(hay, kw) ==
    \E i \in 1..(Len(hay) - Len(kw) + 1) : SubSeq(hay, i, i + Len(kw) - 1) = kw

\* a haystack that joins title and text without the separator
HayJoined(title, text) == casefold(title \o text)

\* score, line 75
Hay(title, text) == casefold(title \o <<"\n">> \o text)

\* score, lines 82-83: "if kw and kw.casefold() in hay" for some kw of the list
KeywordHit(kws, hay) ==
    \E k \in 1..Len(kws) : kws[k] # <<>> /\ Contains(hay, casefold(kws[k]))

\* score, lines 92-93: pat.search(title) for some compiled pattern; a pattern
\* is a literal, compiled with re.IGNORECASE
TitleRegexHit(pats, title) ==
    \E k \in 1..Len(pats) : Contains(casefold(title), casefold(pats[k]))

\* a score that looks at the whitelist first
ScoreWhitelistFirst(rules, title, text, total) ==
    RuleScore([bl |-> /\ ~KeywordHit(rules.whitelist, Hay(title, text))
                      /\ \/ KeywordHit(rules.blacklist, Hay(title, text))
                         \/ TitleRegexHit(rules.block_title_regex, title),
               wl |-> KeywordHit(rules.whitelist, Hay(title, text)),
               total |-> total])

\* RuleEngine.score on the strings: the blacklist keywords, the blocked-title
\* patterns, the whitelist keywords, then the weighted rules (their total)
RuleEngine_score(rules, title, text, total) ==
    RuleScore([bl |-> \/ KeywordHit(rules.blacklist, Hay(title, text))
                      \/ TitleRegexHit(rules.block_title_regex, title),
               wl |-> KeywordHit(rules.whitelist, Hay(title, text)),
               total |-> total])

\* titles and texts of at most two characters, keywords and patterns
Strings == {<<>>} \cup {<<c>> : c \in {"a", "A", "b"}}
              \cup {<<c, d>> : c \in {"a", "b"}, d \in {"A", "b"}}
Keywords == {<<>>, <<"A">>, <<"b">>, <<"a", "b">>}
KeywordLists == {<<>>} \cup {<<kw>> : kw \in Keywords}
PatternLists == {<<>>, << <<"A">> >>}
RuleSets ==
    [whitelist : KeywordLists, blacklist : KeywordLists, block_title_regex : PatternLists]

NoRuleCall ==
    [rules |-> [whitelist |-> <<>>, blacklist |-> <<>>, block_title_regex |-> <<>>],
     title |-> <<>>, text |-> <<>>, total |-> 10, result |-> None]

\* ctx.rules.score(title, text=..., source_confidence=...)
Score ==
    /\ rcall.result = None
    /\ rcall' = [rcall EXCEPT !.result =
                    Some(RuleEngine_score(rcall.rules, rcall.title, rcall.text, rcall.total))]
    /\ UNCHANGED <<aic, chk, tcall, acq, acall, fcalls>>

(* ------------------------- storage: writes ----------------------------- *)
\* "UPDATE posts SET status=?, updated_at=? WHERE id=?" (no row: no change)
WithStatus(ps, id, st) ==
    IF id \in DOMAIN ps THEN [ps EXCEPT ![id].status = st] ELSE ps

TouchIf(ps, order, id) == IF id \in DOMAIN ps THEN Touch(order, id) ELSE order

\* a set_status whose UPDATE matches no row
SetStatusNoRow(ps, id, st) == ps

\* Storage.set_status
SetStatusPosts(ps, id, st) == WithStatus(ps, id, st)

\* Storage.save_content: upsert the contents row, status FETCHED and the
\* result's source_confidence on the post
SaveContentPosts(ps, id, conf) ==
    IF id \in DOMAIN ps
    THEN [ps EXCEPT ![id].status = STATUS_FETCHED, ![id].source_confidence = conf]
    ELSE ps

\* Storage.save_summary: upsert the ai_summaries row, status SUMMARIZED
SaveSummaryPosts(ps, id) == WithStatus(ps, id, STATUS_SUMMARIZED)

\* a save_score that writes the status of save_content
SaveScoreAsFetched(ps, id) == WithStatus(ps, id, STATUS_FETCHED)

\* Storage.save_score: upsert the scores row, status SCORED
SaveScorePosts(ps, id) == WithStatus(ps, id, STATUS_SCORED)

\* Storage.record_delivery: INSERT OR IGNORE under ux_deliveries_post_target,
\* then status NOTIFIED
RecordDeliveryRows(dl, id) == IF dl[id] > 0 THEN dl ELSE [dl EXCEPT ![id] = 1]
RecordDeliveryPosts(ps, id) == WithStatus(ps, id, STATUS_NOTIFIED)

\* Storage.update_fingerprint_processed: UPDATE fingerprints ... WHERE url_hash=?
UpdateFingerprintProcessed(fp, url_hash, decision) ==
    IF url_hash \in DOMAIN fp
    THEN [fp EXCEPT ![url_hash].last_decision = Some(decision)]
    ELSE fp

(* --------------------- process_one: the locals ------------------------- *)
Workers == {1, 2}

InitRun ==
    [post_id |-> NoPost,        \* post_id
     start_status |-> "",       \* history: posts.status when the run took the item
     url_hash |-> NoPost,       \* post.url_hash
     tried_fulltext |-> FALSE,  \* tried_fulltext
     fetch_raised |-> FALSE,    \* history: the except branch of the fetch ran
     result_conf |-> "",        \* content_result.source_confidence
     attempts |-> <<>>,         \* attempts
     stale |-> FALSE,           \* history: reset_post committed on the run's post
                                \* since the run took it
     made |-> 0,                \* history: attempts the crawler made in this run
     recorded |-> 0,            \* attempts already passed to add_fetch_attempt
     source_conf |-> CONF_RSS_ONLY,  \* source_conf
     content_text |-> "rss",    \* content_text: rss (rss_text) | full (fetched page)
     summary |-> "None",        \* summary: None | pending | fresh | cached
     ai_raised |-> FALSE,       \* history: the except branch of the summary ran
     score_input |-> None,      \* history: what rules.score was called with
     score |-> None,            \* score
     n_labels |-> None,         \* n_labels of _should_deliver
     threshold |-> None,        \* threshold of _should_deliver
     deliver |-> None]          \* deliver

\* no run is in flight: process_job sleeps between two ticks
Resting == {"idle"}

Running(w) == pc[w] \notin Resting

\* the (content, attempts) shapes CrawlerService.fetch_best_effort returns
HttpOk == [method |-> "HTTP", ok |-> TRUE, error_type |-> None]
HttpFail == [method |-> "HTTP", ok |-> FALSE, error_type |-> Some(ERROR_TIMEOUT)]
HttpLogin == [method |-> "HTTP", ok |-> FALSE, error_type |-> Some(ERROR_LOGIN_REQUIRED)]
BrowserOk == [method |-> "BROWSER", ok |-> TRUE, error_type |-> None]
BrowserFail == [method |-> "BROWSER", ok |-> FALSE, error_type |-> Some(ERROR_UNKNOWN)]
CrawlResults ==
    {[conf |-> CONF_RSS_ONLY, attempts |-> <<>>],
     [conf |-> CONF_FULLTEXT_HTTP, attempts |-> <<HttpOk>>],
     [conf |-> CONF_RSS_ONLY, attempts |-> <<HttpFail>>],
     [conf |-> CONF_RSS_ONLY, attempts |-> <<HttpLogin>>],
     [conf |-> CONF_FULLTEXT_BROWSER, attempts |-> <<HttpFail, BrowserOk>>],
     [conf |-> CONF_RSS_ONLY, attempts |-> <<HttpFail, BrowserFail>>]}

\* pipeline._should_attempt_fulltext on the configuration, the crawler's
\* disable state and the feed-only pre-score
FetchPolicies == {"never", "always", "near_threshold"}
\* settings.fulltext_near_threshold_delta: the default and a wider margin
NearDeltas == {4, 8}
\* a _should_attempt_fulltext that does not look at the cookie
AttemptWithoutCookie(i) ==
    IF ~i.fulltext_enabled THEN FALSE
    ELSE IF i.fulltext_disabled THEN FALSE
    ELSE IF i.policy = "never" THEN FALSE
    ELSE IF i.policy = "always" THEN TRUE
    ELSE IF i.pre.decision = "WHITELIST" THEN TRUE
    ELSE i.pre.score_total >= score_threshold - i.delta
AttemptInputs ==
    [fulltext_enabled : BOOLEAN, cookie : BOOLEAN, fulltext_disabled : BOOLEAN,
     policy : FetchPolicies, pre : {RuleScore(f) : f \in TextFeatures},
     delta : NearDeltas]
_should_attempt_fulltext(i) ==
    IF ~i.fulltext_enabled THEN FALSE
    ELSE IF ~i.cookie THEN FALSE
    ELSE IF i.fulltext_disabled THEN FALSE
    ELSE IF i.policy = "never" THEN FALSE
    ELSE IF i.policy = "always" THEN TRUE
    ELSE IF i.pre.decision = "WHITELIST" THEN TRUE
    ELSE i.pre.score_total >= score_threshold - i.delta

\* what _should_attempt_fulltext may answer over the configurations, disable
\* states and pre-scores
AttemptOutcomes == {_should_attempt_fulltext(i) : i \in AttemptInputs}

\* no full-text decision in progress
NoAttemptCall ==
    [input |-> [fulltext_enabled |-> FALSE, cookie |-> FALSE, fulltext_disabled |-> FALSE,
                policy |-> "never", pre |-> RuleScore([bl |-> FALSE, wl |-> FALSE, total |-> 10]),
                delta |-> 4],
     pc |-> "done", result |-> None, crawler_calls |-> 0]

\* process_one, line 344: _should_attempt_fulltext(ctx, title=..., rss_text=...)
ShouldAttempt ==
    /\ acall.pc = "start"
    /\ acall' = [acall EXCEPT !.pc = "decided",
                              !.result = Some(_should_attempt_fulltext(acall.input))]
    /\ UNCHANGED <<aic, chk, rcall, tcall, acq, fcalls>>

\* process_one, lines 345-348: ctx.crawler.fetch_best_effort is called
FetchFulltext ==
    /\ acall.pc = "decided" /\ acall.result = Some(TRUE)
    /\ acall' = [acall EXCEPT !.pc = "done", !.crawler_calls = @ + 1]
    /\ UNCHANGED <<aic, chk, rcall, tcall, acq, fcalls>>

\* process_one, lines 349-351: the feed text is used, the crawler is not called
UseRssOnly ==
    /\ acall.pc = "decided" /\ acall.result = Some(FALSE)
    /\ acall' = [acall EXCEPT !.pc = "done"]
    /\ UNCHANGED <<aic, chk, rcall, tcall, acq, fcalls>>

\* history owed: what a post is owed when a run on it ends
OwedAfter(ps, id) ==
    IF id \in DOMAIN ps /\ ps[id].status \in {STATUS_NEW, STATUS_FAILED}
    THEN {q \in DOMAIN ps \ {id} : ps[q].status \in {STATUS_NEW, STATUS_FAILED}}
    ELSE {}

\* a run of worker w on its post ends (returns or raises) with posts table ps
EndRun(w, ps) == owed' = [owed EXCEPT ![run[w].post_id] = OwedAfter(ps, run[w].post_id)]

(* ---------------------- consecutive-failure alerts -------------------- *)
CounterNames == {"fetch", "login", "ai"}
NoFailures == [c \in CounterNames |-> 0]

\* pipeline._update_fetch_stats_and_metrics on RuntimeStats st
_update_fetch_stats_and_metrics(st, attempts) ==
    IF attempts = <<>> THEN st
    ELSE LET any_ok == \E i \in DOMAIN attempts : attempts[i].ok
             login_failed == \E i \in DOMAIN attempts :
                                attempts[i].error_type = Some(ERROR_LOGIN_REQUIRED)
         IN [st EXCEPT !["fetch"] = IF any_ok THEN 0 ELSE @ + 1,
                       !["login"] = IF login_failed THEN @ + 1
                                    ELSE IF any_ok THEN 0 ELSE @]

\* alerts.maybe_send_consecutive_failure_alert calls bot.send_message
SendsAlert(count, threshold) ==
    IF threshold <= 0 THEN FALSE
    ELSE IF count # threshold THEN FALSE
    ELSE TRUE

\* history: alerts of counter c since it was last zero, after a step that left
\* the counters at st and called send_message for the counters in sentFor
AlertedAfter(st, sentFor) ==
    [c \in CounterNames |->
        IF st[c] = 0 THEN 0
        ELSE alerted[c] + (IF c \in sentFor THEN 1 ELSE 0)]

\* the counters stay within what is followed
WithinStreak(st, al) == \A c \in CounterNames : st[c] <= MaxStreak /\ al[c] <= MaxAlerts

\* lines 368-376 of process_one: the stats update and the login alert that
\* follow the try block when tried_fulltext is set
AfterFetch(st, attempts, sentFor) ==
    LET st2 == _update_fetch_stats_and_metrics(st, attempts)
        sent2 == sentFor \cup (IF SendsAlert(st2["login"], alert_n["login"])
                               THEN {"login"} ELSE {})
    IN /\ stats' = st2
       /\ alerted' = AlertedAfter(st2, sent2)
       /\ WithinStreak(st2, AlertedAfter(st2, sent2))
       /\ UNCHANGED <<alert_n, auxVars>>

\* the AI counter after a summarize try that failed (TRUE) or succeeded
AfterSummarize(failed) ==
    LET st2 == [stats EXCEPT !["ai"] = IF failed THEN @ + 1 ELSE 0]
        al2 == AlertedAfter(st2, IF failed /\ SendsAlert(st2["ai"], alert_n["ai"])
                                 THEN {"ai"} ELSE {})
    IN /\ stats' = st2
       /\ alerted' = al2
       /\ WithinStreak(st2, al2)
       /\ UNCHANGED <<alert_n, auxVars>>

(* ------------------------ process_one, step by step -------------------- *)
SetRun(w, r) == run' = [run EXCEPT ![w] = r]
Goto(w, where) == pc' = [pc EXCEPT ![w] = where]
Post(w) == run[w].post_id

\* process_one: "if ctx.paused: return"
ProcessPaused(w) ==
    /\ w \in workers /\ pc[w] \in Resting /\ paused
    /\ Goto(w, "idle") /\ SetRun(w, InitRun)
    /\ UNCHANGED <<statVars, auxVars, dbVars, paused, workers, histVars, budgetVars>>

\* process_one: take_next_for_processing returned None
ProcessEmpty(w) ==
    /\ w \in workers /\ pc[w] \in Resting /\ ~paused
    /\ TakeNextForProcessing(posts, updOrder) = NoPost
    /\ Goto(w, "idle") /\ SetRun(w, InitRun)
    /\ UNCHANGED <<statVars, auxVars, dbVars, paused, workers, histVars, budgetVars>>

\* process_one: take_next_for_processing, get_post, _should_attempt_fulltext
ProcessTake(w) ==
    /\ w \in workers /\ pc[w] \in Resting /\ ~paused
    /\ LET id == TakeNextForProcessing(posts, updOrder) IN
        /\ id # NoPost
        /\ \E attempt \in AttemptOutcomes :
            /\ SetRun(w, [InitRun EXCEPT !.post_id = id,
                                         !.start_status = posts[id].status,
                                         !.url_hash = posts[id].url_hash,
                                         !.tried_fulltext = attempt])
            /\ Goto(w, IF attempt THEN "crawl" ELSE "load_summary")
        /\ owed' = [q \in PostIds |-> IF q = id THEN owed[q] ELSE owed[q] \ {id}]
    /\ UNCHANGED <<statVars, auxVars, dbVars, paused, workers, sent, wasReset, budgetVars>>

\* ctx.crawler.fetch_best_effort returned (content_result, attempts)
CrawlReturns(w) ==
    /\ w \in workers /\ pc[w] = "crawl"
    /\ \E r \in CrawlResults :
        SetRun(w, [run[w] EXCEPT !.result_conf = r.conf, !.attempts = r.attempts,
                                 !.made = Len(r.attempts)])
    /\ Goto(w, "save_content")
    /\ UNCHANGED <<statVars, auxVars, dbVars, paused, workers, histVars, budgetVars>>

\* the attempts fetch_best_effort has made when an exception leaves it: the
\* HTTP one. Only self._http.fetch is called under "except FetchError" alone;
\* the browser call is under "except Exception" as well
AttemptsBeforeRaise == 1

\* ctx.crawler.fetch_best_effort raised: the except branch starts; the tuple
\* assignment did not happen, attempts is still []
CrawlRaises(w) ==
    /\ w \in workers /\ pc[w] = "crawl"
    /\ SetRun(w, [run[w] EXCEPT !.fetch_raised = TRUE, !.made = AttemptsBeforeRaise])
    /\ Goto(w, "set_failed")
    /\ UNCHANGED <<statVars, auxVars, dbVars, paused, workers, histVars, budgetVars>>

\* an except branch of the fetch that returns from process_one
ReturnsAfterExcept(attempts) == "idle"

\* where process_one goes on after the except branch of the fetch: the loop
\* over attempts, then the summary
AfterExcept(attempts) ==
    IF Len(attempts) > 0 THEN "add_fetch_attempt" ELSE "load_summary"

\* the arguments of ctx.rules.score: score_input is content_text, with the
\* summary appended when there is one, and source_conf
ScoreInput(r) ==
    [text |-> r.content_text, summary |-> r.summary # "None", conf |-> r.source_conf]

\* storage.save_content, then source_conf = content_result.source_confidence,
\* then (tried_fulltext) the stats update and the login alert
SaveContent(w) ==
    /\ w \in workers /\ pc[w] = "save_content"
    /\ posts' = SaveContentPosts(posts, Post(w), run[w].result_conf)
    /\ updOrder' = TouchIf(posts, updOrder, Post(w))
    /\ contents' = contents \cup {Post(w)}
    /\ SetRun(w, [run[w] EXCEPT !.source_conf = run[w].result_conf,
                                !.content_text = IF run[w].result_conf = CONF_RSS_ONLY
                                                 THEN "rss" ELSE "full"])
    /\ AfterFetch(stats, run[w].attempts, {})
    /\ Goto(w, IF Len(run[w].attempts) > 0 THEN "add_fetch_attempt" ELSE "load_summary")
    /\ UNCHANGED <<fetch_attempts, ai_summaries, scores, deliveries, labels, labelHist,
                   fingerprints, fpOrder, seq, paused, workers, histVars, budgetVars>>

\* except branch: storage.set_status(post_id, STATUS_FAILED), the fetch counter
\* and its alert, source_conf = "RSS_ONLY"; then (tried_fulltext) the stats
\* update and the login alert. attempts is [] when fetch_best_effort raised and
\* the crawler's list when save_content raised
SetFailed(w) ==
    /\ w \in workers /\ pc[w] = "set_failed"
    /\ posts' = SetStatusPosts(posts, Post(w), STATUS_FAILED)
    /\ updOrder' = TouchIf(posts, updOrder, Post(w))
    /\ SetRun(w, [run[w] EXCEPT !.source_conf = CONF_RSS_ONLY, !.content_text = "rss"])
    /\ LET st1 == [stats EXCEPT !["fetch"] = @ + 1] IN
        AfterFetch(st1, run[w].attempts,
                   IF SendsAlert(st1["fetch"], alert_n["fetch"]) THEN {"fetch"} ELSE {})
    /\ Goto(w, AfterExcept(run[w].attempts))
    /\ UNCHANGED <<contents, fetch_attempts, ai_summaries, scores, deliveries, labels,
                   labelHist, fingerprints, fpOrder, seq, paused, workers, histVars, budgetVars>>

\* "for idx, a in enumerate(attempts)": one storage.add_fetch_attempt
AddFetchAttempt(w) ==
    /\ w \in workers /\ pc[w] = "add_fetch_attempt"
    /\ fetch_attempts' = [fetch_attempts EXCEPT ![Post(w)] = @ + 1]
    /\ SetRun(w, [run[w] EXCEPT !.recorded = @ + 1])
    /\ Goto(w, IF run[w].recorded + 1 >= Len(run[w].attempts)
               THEN "load_summary" ELSE "add_fetch_attempt")
    /\ UNCHANGED <<statVars, auxVars, posts, updOrder, contents, ai_summaries, scores, deliveries, labels,
                   labelHist, fingerprints, fpOrder, seq, paused, workers, histVars, budgetVars>>

\* storage.load_summary
LoadSummary(w) ==
    /\ w \in workers /\ pc[w] = "load_summary"
    /\ IF Post(w) \in ai_summaries
       THEN SetRun(w, [run[w] EXCEPT !.summary = "cached"]) /\ Goto(w, "score")
       ELSE UNCHANGED run /\ Goto(w, "summarize")
    /\ UNCHANGED <<statVars, auxVars, dbVars, paused, workers, histVars, budgetVars>>

\* ctx.ai.summarize returned
SummarizeReturns(w) ==
    /\ w \in workers /\ pc[w] = "summarize"
    /\ SetRun(w, [run[w] EXCEPT !.summary = "pending"])
    /\ Goto(w, "save_summary")
    /\ UNCHANGED <<statVars, auxVars, dbVars, paused, workers, histVars, budgetVars>>

\* ctx.ai.summarize raised: caught, summary = None
SummarizeRaises(w) ==
    /\ w \in workers /\ pc[w] = "summarize"
    /\ SetRun(w, [run[w] EXCEPT !.summary = "None", !.ai_raised = TRUE])
    /\ AfterSummarize(TRUE)
    /\ Goto(w, "score")
    /\ UNCHANGED <<dbVars, paused, workers, histVars, budgetVars>>

\* storage.save_summary, then consecutive_ai_failures = 0
SaveSummary(w) ==
    /\ w \in workers /\ pc[w] = "save_summary"
    /\ posts' = SaveSummaryPosts(posts, Post(w))
    /\ updOrder' = TouchIf(posts, updOrder, Post(w))
    /\ ai_summaries' = ai_summaries \cup {Post(w)}
    /\ SetRun(w, [run[w] EXCEPT !.summary = "fresh"])
    /\ AfterSummarize(FALSE)
    /\ Goto(w, "score")
    /\ UNCHANGED <<contents, fetch_attempts, scores, deliveries, labels, labelHist,
                   fingerprints, fpOrder, seq, paused, workers, histVars, budgetVars>>

\* ctx.rules.score, then storage.save_score
ScoreAndSave(w) ==
    /\ w \in workers /\ pc[w] = "score"
    /\ \E f \in TextFeatures :
        /\ scores' = (Post(w) :> RuleScore(f)) @@ scores
        /\ SetRun(w, [run[w] EXCEPT !.score = Some(RuleScore(f)),
                                    !.score_input = Some(ScoreInput(run[w]))])
    /\ posts' = SaveScorePosts(posts, Post(w))
    /\ updOrder' = TouchIf(posts, updOrder, Post(w))
    /\ Goto(w, "decide")
    /\ UNCHANGED <<statVars, auxVars, contents, fetch_attempts, ai_summaries, deliveries, labels, labelHist,
                   fingerprints, fpOrder, seq, paused, workers, histVars, budgetVars>>

\* _should_deliver(ctx, score.score_total, score.decision)
Decide(w) ==
    /\ w \in workers /\ pc[w] = "decide"
    /\ LET sc == run[w].score[1]
           n == CountLabels(labelHist, labels)
           labeled == GetLabeledScores(labelHist, labels, scores, _MIN_LABELS_TO_AUTOFILTER)
           d == _should_deliver(sc.score_total, sc.decision, n, labeled)
       IN /\ SetRun(w, [run[w] EXCEPT
                          !.n_labels = IF sc.decision = "BLACKLIST" THEN None ELSE Some(n),
                          !.threshold = DeliverThreshold(sc.decision, n, labeled),
                          !.deliver = Some(d)])
          /\ Goto(w, IF d THEN "has_delivery" ELSE "set_ignored")
    /\ UNCHANGED <<statVars, auxVars, dbVars, paused, workers, histVars, budgetVars>>

\* "if not await ctx.storage.has_delivery(post_id, target_chat_id)"
CheckDelivery(w) ==
    /\ w \in workers /\ pc[w] = "has_delivery"
    /\ Goto(w, IF HasDelivery(deliveries, Post(w)) THEN "update_fingerprint" ELSE "send")
    /\ UNCHANGED <<statVars, auxVars, dbVars, paused, workers, run, histVars, budgetVars>>

\* application.bot.send_message(chat_id=target_chat_id, ...) returned
Send(w) ==
    /\ w \in workers /\ pc[w] = "send"
    /\ sent' = [sent EXCEPT ![Post(w)] = @ + 1]
    /\ Goto(w, "record_delivery")
    /\ UNCHANGED <<statVars, auxVars, dbVars, paused, workers, run, wasReset, owed, budgetVars>>

\* storage.record_delivery
RecordDelivery(w) ==
    /\ w \in workers /\ pc[w] = "record_delivery"
    /\ deliveries' = RecordDeliveryRows(deliveries, Post(w))
    /\ posts' = RecordDeliveryPosts(posts, Post(w))
    /\ updOrder' = TouchIf(posts, updOrder, Post(w))
    /\ Goto(w, "update_fingerprint")
    /\ UNCHANGED <<statVars, auxVars, contents, fetch_attempts, ai_summaries, scores, labels, labelHist,
                   fingerprints, fpOrder, seq, paused, workers, run, histVars, budgetVars>>

\* else branch: storage.set_status(post_id, STATUS_IGNORED)
SetIgnored(w) ==
    /\ w \in workers /\ pc[w] = "set_ignored"
    /\ posts' = SetStatusPosts(posts, Post(w), STATUS_IGNORED)
    /\ updOrder' = TouchIf(posts, updOrder, Post(w))
    /\ Goto(w, "update_fingerprint")
    /\ UNCHANGED <<statVars, auxVars, contents, fetch_attempts, ai_summaries, scores, deliveries, labels,
                   labelHist, fingerprints, fpOrder, seq, paused, workers, run, histVars, budgetVars>>

\* storage.update_fingerprint_processed, then process_one returns
UpdateFingerprint(w) ==
    /\ w \in workers /\ pc[w] = "update_fingerprint"
    /\ fingerprints' = UpdateFingerprintProcessed(fingerprints, run[w].url_hash,
                                                  run[w].score[1].decision)
    /\ Goto(w, "idle") /\ SetRun(w, InitRun)
    /\ EndRun(w, posts)
    /\ UNCHANGED <<statVars, auxVars, posts, updOrder, contents, fetch_attempts, ai_summaries, scores,
                   deliveries, labels, labelHist, fpOrder, seq, paused, workers, sent,
                   wasReset, budgetVars>>

(* ------------------------------ exceptions ----------------------------- *)
\* the storage writes of process_one that no try block encloses
UncaughtWrites ==
    {"set_failed", "add_fetch_attempt", "score", "record_delivery",
     "set_ignored", "update_fingerprint"}

\* a storage write raises (nothing is committed); process_one propagates the
\* exception to process_job, which logs it and sleeps until the next tick
StorageWriteRaises(w) ==
    /\ w \in workers /\ pc[w] \in UncaughtWrites
    /\ faults < MaxFaults /\ faults' = faults + 1
    /\ Goto(w, "idle") /\ SetRun(w, InitRun)
    /\ EndRun(w, posts)
    /\ UNCHANGED <<statVars, auxVars, dbVars, paused, workers, sent, wasReset, restarts, resets, labelOps>>

\* storage.save_summary raises inside the try block of the AI step: caught by
\* "except Exception", summary = None, the run goes on
SaveSummaryRaises(w) ==
    /\ w \in workers /\ pc[w] = "save_summary"
    /\ faults < MaxFaults /\ faults' = faults + 1
    /\ SetRun(w, [run[w] EXCEPT !.summary = "None", !.ai_raised = TRUE])
    /\ AfterSummarize(TRUE)
    /\ Goto(w, "score")
    /\ UNCHANGED <<dbVars, paused, workers, histVars, restarts, resets, labelOps>>

\* storage.save_content raises inside the try block of the fetch step: caught
\* by "except Exception" like an exception of the crawler; attempts keeps the
\* list the crawler returned
SaveContentRaises(w) ==
    /\ w \in workers /\ pc[w] = "save_content"
    /\ faults < MaxFaults /\ faults' = faults + 1
    /\ Goto(w, "set_failed")
    /\ UNCHANGED <<statVars, auxVars, dbVars, paused, workers, run, histVars, restarts, resets, labelOps>>

\* application.bot.send_message raises: propagated like a storage exception
SendRaises(w) ==
    /\ w \in workers /\ pc[w] = "send"
    /\ faults < MaxFaults /\ faults' = faults + 1
    /\ Goto(w, "idle") /\ SetRun(w, InitRun)
    /\ EndRun(w, posts)
    /\ UNCHANGED <<statVars, auxVars, dbVars, paused, workers, sent, wasReset, restarts, resets, labelOps>>

(* --------------------------- the other tasks --------------------------- *)
\* Storage._upsert_from_feed_locked: what the UPDATE of the guid branch meets
\* when another row already holds the new url_hash (ux_posts_url_hash)
UpsertConflict(ps, item) ==
    \E id \in DOMAIN ps, other \in DOMAIN ps :
        /\ item.guid # None /\ ps[id].guid = item.guid
        /\ other # id /\ ps[other].url_hash = UrlHash(item.url)

\* the row an upsert of item updates: by guid, else by url_hash; NoPost if none
UpsertTarget(ps, item) ==
    LET byGuid == {id \in DOMAIN ps : item.guid # None /\ ps[id].guid = item.guid}
        byHash == {id \in DOMAIN ps : ps[id].url_hash = UrlHash(item.url)}
    IN IF byGuid # {} THEN CHOOSE x \in byGuid : TRUE
       ELSE IF byHash # {} THEN CHOOSE x \in byHash : TRUE
       ELSE NoPost

\* an upsert whose UPDATE statements also put the row back to NEW
UpsertRequeues(item) ==
    LET url_hash == UrlHash(item.url)
        byGuid == {id \in DOMAIN posts : item.guid # None /\ posts[id].guid = item.guid}
        id == UpsertTarget(posts, item)
        newId == seq + 1
    IN
    /\ fingerprints' = IF url_hash \in DOMAIN fingerprints THEN fingerprints
                       ELSE (url_hash :> [last_decision |-> None]) @@ fingerprints
    /\ fpOrder' = Touch(fpOrder, url_hash)
    /\ IF UpsertConflict(posts, item)
       THEN UNCHANGED <<posts, updOrder, seq>>
       ELSE IF byGuid # {}
       THEN /\ posts' = [posts EXCEPT ![id].url_hash = url_hash, ![id].title = item.title,
                                       ![id].status = STATUS_NEW]
            /\ updOrder' = Touch(updOrder, id)
            /\ seq' = seq
       ELSE IF id # NoPost
       THEN /\ posts' = [posts EXCEPT ![id].title = item.title,
                                       ![id].status = STATUS_NEW]
            /\ updOrder' = Touch(updOrder, id)
            /\ seq' = seq
       ELSE /\ newId \in PostIds
            /\ posts' = (newId :> [guid |-> item.guid, url_hash |-> url_hash,
                                   title |-> item.title,
                                   status |-> STATUS_NEW,
                                   source_confidence |-> CONF_RSS_ONLY]) @@ posts
            /\ updOrder' = Append(updOrder, newId)
            /\ seq' = newId
    /\ UNCHANGED <<statVars, auxVars, contents, fetch_attempts, ai_summaries, scores, deliveries,
                   labels, labelHist, memVars, histVars, budgetVars>>

\* poll_rss_once: one storage.upsert_from_feed(it) of its loop. The fingerprint
\* statement runs first; when the guid-branch UPDATE raises IntegrityError the
\* posts table is left as it was (the exception ends poll_rss_once)
UpsertFromFeed(item) ==
    LET url_hash == UrlHash(item.url)
        byGuid == {id \in DOMAIN posts : item.guid # None /\ posts[id].guid = item.guid}
        id == UpsertTarget(posts, item)
        newId == seq + 1
    IN
    /\ fingerprints' = IF url_hash \in DOMAIN fingerprints THEN fingerprints
                       ELSE (url_hash :> [last_decision |-> None]) @@ fingerprints
    /\ fpOrder' = Touch(fpOrder, url_hash)
    /\ IF UpsertConflict(posts, item)
       THEN UNCHANGED <<posts, updOrder, seq>>
       ELSE IF byGuid # {}
       THEN /\ posts' = [posts EXCEPT ![id].url_hash = url_hash, ![id].title = item.title]
            /\ updOrder' = Touch(updOrder, id)
            /\ seq' = seq
       ELSE IF id # NoPost
       THEN /\ posts' = [posts EXCEPT ![id].title = item.title]
            /\ updOrder' = Touch(updOrder, id)
            /\ seq' = seq
       ELSE /\ newId \in PostIds
            /\ posts' = (newId :> [guid |-> item.guid, url_hash |-> url_hash,
                                   title |-> item.title,
                                   status |-> STATUS_NEW,
                                   source_confidence |-> CONF_RSS_ONLY]) @@ posts
            /\ updOrder' = Append(updOrder, newId)
            /\ seq' = newId
    /\ UNCHANGED <<statVars, auxVars, contents, fetch_attempts, ai_summaries, scores, deliveries,
                   labels, labelHist, memVars, histVars, budgetVars>>

\* cleanup_job: Storage.cleanup. The k least recently updated posts are older
\* than content_cutoff, the child rows of the posts in kids are older than it,
\* the j least recently seen fingerprints are older than fp_cutoff. Deleting a
\* post deletes its child rows (ON DELETE CASCADE). A run lasts less than the
\* retention window: the post of a run in flight is not older than the cutoff.
\* History: pruned holds the url_hash and last status of every deleted post
\* whose fingerprint row has been kept since
Cleanup(k, kids, j) ==
    LET old == {updOrder[i] : i \in 1..k}
        gone == {p \in old : posts[p].status \in _TERMINAL_STATUSES}
        rows == kids \cup gone
        fpGone == {fpOrder[i] : i \in 1..j}
    IN
    /\ k \in 0..Len(updOrder) /\ j \in 0..Len(fpOrder) /\ kids \subseteq DOMAIN posts
    /\ \A w \in workers : Running(w) => run[w].post_id \notin old
    /\ cleanups < MaxCleanups /\ cleanups' = cleanups + 1
    /\ fetch_attempts' = [p \in PostIds |-> IF p \in rows THEN 0 ELSE fetch_attempts[p]]
    /\ ai_summaries' = ai_summaries \ rows
    /\ scores' = [q \in DOMAIN scores \ rows |-> scores[q]]
    /\ deliveries' = [p \in PostIds |-> IF p \in rows THEN 0 ELSE deliveries[p]]
    /\ contents' = contents \ gone
    /\ labels' = SelectSeq(labels, LAMBDA l : l.post_id \notin gone)
    /\ posts' = [q \in DOMAIN posts \ gone |-> posts[q]]
    /\ updOrder' = SelectSeq(updOrder, LAMBDA q : q \notin gone)
    /\ fingerprints' = [h \in DOMAIN fingerprints \ fpGone |-> fingerprints[h]]
    /\ fpOrder' = SubSeq(fpOrder, j + 1, Len(fpOrder))
    /\ pruned' = {r \in pruned \cup {[url_hash |-> posts[p].url_hash,
                                       status |-> posts[p].status] : p \in gone} :
                        r.url_hash \notin fpGone}
    /\ UNCHANGED <<seq, labelHist, memVars, statVars, svcVars, aiVars, histVars, budgetVars>>

\* on_callback "label:<useful|useless>:<post_id>": get_post, then
\* AppContext.save_label -> Storage.upsert_label (ON CONFLICT(post_id) DO UPDATE)
UpsertLabel(p, label) ==
    /\ p \in DOMAIN posts
    /\ labelOps < MaxLabelOps /\ labelOps' = labelOps + 1
    /\ labels' = Append(SelectSeq(labels, LAMBDA l : l.post_id # p),
                        [post_id |-> p, label |-> label])
    /\ UNCHANGED <<statVars, auxVars, posts, updOrder, contents, fetch_attempts, ai_summaries, scores,
                   deliveries, labelHist, fingerprints, fpOrder, seq, memVars, histVars,
                   faults, restarts, resets>>

\* cmd_reprocess -> AppContext.reset_post -> Storage.reset_post
ResetRows(p) ==
    /\ p \in DOMAIN posts
    /\ resets < MaxResets /\ resets' = resets + 1
    /\ deliveries' = [deliveries EXCEPT ![p] = 0]
    /\ fetch_attempts' = [fetch_attempts EXCEPT ![p] = 0]
    /\ contents' = contents \ {p}
    /\ ai_summaries' = ai_summaries \ {p}
    /\ scores' = [q \in DOMAIN scores \ {p} |-> scores[q]]
    /\ posts' = [posts EXCEPT ![p].status = STATUS_NEW,
                              ![p].source_confidence = CONF_RSS_ONLY]
    /\ updOrder' = Touch(updOrder, p)
    /\ wasReset' = wasReset \cup {p}
    /\ UNCHANGED <<statVars, auxVars, labels, labelHist, fingerprints, fpOrder, seq, paused, workers, pc, sent, owed,
                   faults, restarts, labelOps>>

\* AppContext.reset_post -> Storage.reset_post
ResetPost(p) == ResetRows(p) /\ UNCHANGED run

\* reset_post, with the history of the runs it overtakes: a run in flight on
\* the post is marked stale
ResetPostInFlight(p) ==
    /\ ResetRows(p)
    /\ run' = [w \in Workers |->
                 IF Running(w) /\ run[w].post_id = p THEN [run[w] EXCEPT !.stale = TRUE]
                 ELSE run[w]]

\* cmd_pause. paused is read only by the first line of process_one, so the
\* command is taken between two ticks (it commutes with the steps of a run)
Pause ==
    /\ \A w \in workers : ~Running(w)
    /\ paused' = TRUE
    /\ UNCHANGED <<statVars, auxVars, dbVars, workers, pc, run, histVars, budgetVars>>

\* cmd_resume
Resume ==
    /\ \A w \in workers : ~Running(w)
    /\ paused' = FALSE
    /\ UNCHANGED <<statVars, auxVars, dbVars, workers, pc, run, histVars, budgetVars>>

\* the process stops (at any await) and starts again: build_app_context makes a
\* fresh AppContext over the same database file
Restart ==
    /\ restarts < MaxRestarts /\ restarts' = restarts + 1
    /\ paused' = FALSE
    /\ pc' = [w \in Workers |-> "idle"]
    /\ run' = [w \in Workers |-> InitRun]
    /\ owed' = [q \in PostIds |->
                  IF \E w \in workers : Running(w) /\ Post(w) = q
                  THEN OwedAfter(posts, q) ELSE owed[q]]
    /\ stats' = NoFailures /\ alerted' = NoFailures
    /\ UNCHANGED <<alert_n, auxVars, dbVars, workers, sent, wasReset, faults, resets, labelOps>>

(* --------------------- rate limiter (ratelimit.py) --------------------- *)
Max0(x) == IF x > 0 THEN x ELSE 0

\* MinIntervalLimiter.__init__
NewLimiter(min_interval_seconds, jitter_seconds) ==
    [_min_interval |-> Max0(min_interval_seconds),
     _jitter |-> Max0(jitter_seconds),
     next_allowed_monotonic |-> 0]

\* a next_allowed_in_seconds that returns the raw difference
NextAllowedRaw(lim, now) == lim.next_allowed_monotonic - now

\* MinIntervalLimiter.next_allowed_in_seconds
next_allowed_in_seconds(lim, now) == Max0(lim.next_allowed_monotonic - now)

\* an acquire that does not sleep
GrantTimesNoSleep(lim, now) == {now + late : late \in 0..1}

\* MinIntervalLimiter.acquire, lines 27-30: the times time.monotonic() may read
\* at line 32, after "if wait_s > 0: await asyncio.sleep(wait_s)"; the event
\* loop resumes the caller on time or late
GrantTimes(lim, now) ==
    LET wait_s == lim.next_allowed_monotonic - now
    IN {(IF wait_s > 0 THEN now + wait_s ELSE now) + late : late \in 0..1}

\* MinIntervalLimiter.acquire, line 32, with the jitter random.uniform drew
Reserve(lim, g, jitter) ==
    [lim EXCEPT !.next_allowed_monotonic = g + lim._min_interval + jitter]

Jitters(lim) == IF lim._jitter > 0 THEN 0..lim._jitter ELSE {0}

\* history: the last two grant times
Granted(sv, g) ==
    [sv EXCEPT !.grants = Append(IF Len(@) = 2 THEN Tail(@) ELSE @, g)]

\* history: the times of the last two requests sent to the site
Requested(sv, t) ==
    [sv EXCEPT !.reqs = Append(IF Len(@) = 2 THEN Tail(@) ELSE @, t)]

\* the fetch paths that share the limiter
Callers == {"http", "browser"}

\* no acquire() call in progress, the lock free
NoAcquires ==
    [lock |-> None, pc |-> [c \in Callers |-> "idle"], wake |-> [c \in Callers |-> 0]]

\* a lock that lets every caller in
LockAlwaysFree(lock) == TRUE

\* asyncio.Lock: free when nobody holds it
LockFree(lock) == lock = None

\* a caller calls acquire(): "async with self._lock" queues it for the lock
AcquireCall(c) ==
    /\ acq.pc[c] = "idle"
    /\ svc.calls < MaxCalls
    /\ acq' = [acq EXCEPT !.pc[c] = "lock"]
    /\ svc' = [svc EXCEPT !.calls = @ + 1]
    /\ UNCHANGED <<clock, crawler, limiter, fcall>>

\* acquire, lines 26-32, from taking the lock to the first await: with
\* wait_s > 0 the caller goes to sleep holding the lock; otherwise it sets
\* next_allowed_monotonic and releases the lock at once
AcquireEnter(c, jitter) ==
    /\ acq.pc[c] = "lock"
    /\ LockFree(acq.lock)
    /\ jitter \in Jitters(limiter)
    /\ LET wait_s == limiter.next_allowed_monotonic - clock
       IN IF wait_s > 0
          THEN /\ clock + wait_s <= MaxTime
               /\ acq' = [acq EXCEPT !.lock = Some(c), !.pc[c] = "sleep",
                                     !.wake[c] = clock + wait_s]
               /\ UNCHANGED <<limiter, svc>>
          ELSE /\ acq' = [acq EXCEPT !.pc[c] = "idle"]
               /\ limiter' = Reserve(limiter, clock, jitter)
               /\ svc' = Granted(svc, clock)
    /\ UNCHANGED <<clock, crawler, fcall>>

\* acquire, lines 30-32: asyncio.sleep is over (on time or late), the caller
\* sets next_allowed_monotonic and leaves "async with", releasing the lock
AcquireWake(c, jitter) ==
    /\ acq.pc[c] = "sleep"
    /\ clock >= acq.wake[c]
    /\ jitter \in Jitters(limiter)
    /\ acq' = [acq EXCEPT !.pc[c] = "idle",
                          !.lock = IF @ = Some(c) THEN None ELSE @]
    /\ limiter' = Reserve(limiter, clock, jitter)
    /\ svc' = Granted(svc, clock)
    /\ UNCHANGED <<clock, crawler, fcall>>

(* --------------------- crawler (crawler/service.py) -------------------- *)
\* CrawlerService.__init__ with a fresh FulltextDisabledState
NewCrawler(stop_fulltext_on_antibot, login_backoff_seconds, allow_browser_fallback) ==
    [_stop_on_antibot |-> stop_fulltext_on_antibot,
     _login_backoff_seconds |-> login_backoff_seconds,
     _allow_browser |-> allow_browser_fallback,
     _disabled_forever |-> FALSE,
     _disabled_until_ts |-> None]

\* a disable_for_seconds that sets the permanent flag
DisableForSecondsForever(cr, seconds, now) ==
    [cr EXCEPT !._disabled_forever = TRUE, !._disabled_until_ts = None]

\* FulltextDisabledState.disable_for_seconds
disable_for_seconds(cr, seconds, now) ==
    [cr EXCEPT !._disabled_forever = FALSE,
               !._disabled_until_ts = Some(now + Max0(seconds))]

\* a disable_forever that leaves the flag clear
DisableForeverNoFlag(cr) ==
    [cr EXCEPT !._disabled_forever = FALSE, !._disabled_until_ts = None]

\* FulltextDisabledState.disable_forever
disable_forever(cr) ==
    [cr EXCEPT !._disabled_forever = TRUE, !._disabled_until_ts = None]

\* FulltextDisabledState.enable
enable(cr) ==
    [cr EXCEPT !._disabled_forever = FALSE, !._disabled_until_ts = None]

\* FulltextDisabledState.is_disabled
is_disabled(cr, now) ==
    IF cr._disabled_forever THEN TRUE
    ELSE cr._disabled_until_ts # None /\ now < cr._disabled_until_ts[1]

\* storage.types.ContentResult: a frozen dataclass whose fields have no defaults
ContentResultFields ==
    {"content_text", "content_html", "content_hash", "content_len", "fetched_at",
     "source_confidence", "image_urls"}

\* the keyword arguments of the three ContentResult(...) calls of the crawler
\* (service._rss_only, HttpPostFetcher.fetch, PlaywrightPostFetcher.fetch)
RssOnlyKwargs ==
    {"content_text", "content_hash", "content_len", "fetched_at", "source_confidence"}
HttpKwargs ==
    {"content_text", "content_hash", "content_len", "fetched_at", "source_confidence"}
BrowserKwargs ==
    {"content_text", "content_hash", "content_len", "fetched_at", "source_confidence"}

\* the dataclass __init__: TypeError unless every field is given
Constructs(kwargs) == ContentResultFields \subseteq kwargs

\* crawler.errors: the classified error types
FetchErrorTypes ==
    {ERROR_LOGIN_REQUIRED, ERROR_ANTIBOT, ERROR_PARSE_FAIL, ERROR_TIMEOUT, ERROR_HTTP,
     ERROR_UNKNOWN}
\* what HttpPostFetcher.fetch / PlaywrightPostFetcher.fetch meet: a page they
\* parse, or a FetchError they raise; the browser may also be missing
\* (_ensure_browser raises RuntimeError)
HttpOutcomes == {"page"} \cup (FetchErrorTypes \ {ERROR_PARSE_FAIL})
BrowserOutcomes ==
    {"page", "RuntimeError", ERROR_TIMEOUT, ERROR_UNKNOWN, ERROR_ANTIBOT,
     ERROR_LOGIN_REQUIRED}

Attempt(method, ok, error_type) ==
    [method |-> method, ok |-> ok, error_type |-> error_type]

\* locals of fetch_best_effort, and history of what the call did
NoCall ==
    [pc |-> "idle",
     attempts |-> <<>>,           \* attempts
     started_disabled |-> FALSE,  \* history: is_disabled() at line 86
     acquires |-> 0,              \* history: limiter.acquire() calls made
     requests |-> 0,              \* history: HTTP / browser requests made
     http_out |-> "none",         \* history: what the HTTP method met
     browser_out |-> "none",      \* history: what the browser method met
     outcome |-> "none",          \* returned | raised
     conf |-> ""]                 \* source_confidence of the returned content

\* the call is over: it returned content of confidence conf, or an exception
\* left fetch_best_effort
Returned(fc, conf) == [fc EXCEPT !.pc = "done", !.outcome = "returned", !.conf = conf]
Raised(fc) == [fc EXCEPT !.pc = "done", !.outcome = "raised"]

\* lines 115-123 / 152-158: the reaction to a FetchError of type e at time now
AfterFetchError(cr, e, now) ==
    IF e = ERROR_ANTIBOT /\ cr._stop_on_antibot THEN disable_forever(cr)
    ELSE IF e = ERROR_LOGIN_REQUIRED /\ cr._stop_on_antibot
         THEN disable_for_seconds(cr, cr._login_backoff_seconds, now)
    ELSE cr
StopsAfter(cr, e) ==
    cr._stop_on_antibot /\ e \in {ERROR_ANTIBOT, ERROR_LOGIN_REQUIRED}

\* history: the time of an anti-bot detection under the stop policy since the
\* last enable_fulltext, and the time of a login-required response under the
\* policy that no disabling event followed
Disabling(sv, cr, e, now) ==
    IF ~StopsAfter(cr, e) THEN sv
    ELSE IF e = ERROR_ANTIBOT
         THEN [sv EXCEPT !.antibotAt = Some(now), !.loginAt = None]
    ELSE [sv EXCEPT !.loginAt = Some(now)]

\* the callers whose fetch_best_effort calls overlap, none in a call
FetchCallers == {1, 2}
NoFetchCalls ==
    [c \in FetchCallers |-> [pc |-> "idle", attempts |-> 0]]

\* fetch_best_effort, lines 84-90, up to the await of self._http.fetch
OverlapStart(c) ==
    /\ fcalls[c].pc = "idle"
    /\ svc.calls < MaxCalls
    /\ svc' = [svc EXCEPT !.calls = @ + 1]
    /\ fcalls' = [fcalls EXCEPT ![c] =
                    [pc |-> IF is_disabled(crawler, clock) THEN "done" ELSE "http",
                     attempts |-> 0]]
    /\ UNCHANGED <<clock, crawler, limiter, fcall>>

\* lines 90-123: self._http.fetch is over with outcome out; the FetchError
\* branch disables the crawler without looking at what happened since line 86.
\* The limiter's pacing of the requests is followed in the sequential calls
OverlapHttp(c, out) ==
    /\ fcalls[c].pc = "http"
    /\ out \in HttpOutcomes
    /\ fcalls' = [fcalls EXCEPT ![c].attempts = @ + 1,
                                ![c].pc = IF out = "page" \/ StopsAfter(crawler, out)
                                             \/ ~crawler._allow_browser
                                          THEN "done" ELSE "browser"]
    /\ crawler' = IF out = "page" THEN crawler ELSE AfterFetchError(crawler, out, clock)
    /\ svc' = IF out = "page" THEN svc ELSE Disabling(svc, crawler, out, clock)
    /\ UNCHANGED <<clock, limiter, fcall>>

\* lines 126-169: self._browser.fetch is over with outcome out
OverlapBrowser(c, out) ==
    /\ fcalls[c].pc = "browser"
    /\ out \in BrowserOutcomes
    /\ fcalls' = [fcalls EXCEPT ![c].attempts = @ + 1, ![c].pc = "done"]
    /\ crawler' = IF out \in {"page", "RuntimeError"} THEN crawler
                  ELSE AfterFetchError(crawler, out, clock)
    /\ svc' = IF out \in {"page", "RuntimeError"} THEN svc
              ELSE Disabling(svc, crawler, out, clock)
    /\ UNCHANGED <<clock, limiter, fcall>>

\* the caller has the result (or the exception) of its call
OverlapEnd(c) ==
    /\ fcalls[c].pc = "done"
    /\ fcalls' = [fcalls EXCEPT ![c].pc = "idle"]
    /\ UNCHANGED <<clock, crawler, limiter, fcall, svc>>

\* fetch_best_effort, lines 84-87
FetchStart ==
    /\ fcall.pc = "idle"
    /\ svc.calls < MaxCalls
    /\ svc' = [svc EXCEPT !.calls = @ + 1]
    /\ fcall' = [NoCall EXCEPT !.started_disabled = is_disabled(crawler, clock),
                               !.pc = IF is_disabled(crawler, clock) THEN "rss_only"
                                      ELSE "http"]
    /\ UNCHANGED <<clock, crawler, limiter>>

\* a _get that sends one request whatever happens
GetTimesOnce(g, tries) == <<g>>

\* HttpPostFetcher._get, lines 62-69: the times of the requests of one call
\* that made the given number of tries; tenacity waits at least 1 s after the
\* first failure and 2 s after the second (wait_exponential_jitter(initial=1))
GetTimes(g, tries) == [k \in 1..tries |-> g + (2 ^ (k - 1) - 1)]

\* the request times t added to the history, oldest first
RECURSIVE RequestedAll(_, _)
RequestedAll(sv, t) ==
    IF t = <<>> THEN sv ELSE RequestedAll(Requested(sv, Head(t)), Tail(t))

\* lines 90-123: self._http.fetch(url), which acquires the limiter once, sends
\* the request through _get (which sends it again after a transport error or a
\* timeout, up to GetAttempts times, and raises the last one) and builds a
\* ContentResult or raises a FetchError
HttpFetch(out, g, jitter, tries) ==
    /\ fcall.pc = "http"
    /\ out \in HttpOutcomes
    /\ tries \in 1..GetAttempts
    /\ out = ERROR_TIMEOUT => tries = GetAttempts
    /\ g \in GrantTimes(limiter, clock) /\ jitter \in Jitters(limiter)
    /\ limiter' = Reserve(limiter, g, jitter)
    /\ LET times == GetTimes(g, tries)
           now == times[Len(times)]
           fc == [fcall EXCEPT !.acquires = @ + 1, !.requests = @ + Len(times),
                               !.http_out = out]
           sv == RequestedAll(Granted(svc, g), times)
       IN /\ now <= MaxTime
          /\ clock' = now
          /\ IF out = "page"
             THEN /\ fcall' = IF Constructs(HttpKwargs)
                              THEN Returned([fc EXCEPT !.attempts =
                                               Append(@, Attempt("HTTP", TRUE, None))],
                                            CONF_FULLTEXT_HTTP)
                              ELSE Raised(fc)
                  /\ crawler' = crawler
                  /\ svc' = sv
             ELSE /\ fcall' = [fc EXCEPT !.attempts =
                                   Append(@, Attempt("HTTP", FALSE, Some(out))),
                                         !.pc = IF StopsAfter(crawler, out) THEN "rss_only"
                                                ELSE IF crawler._allow_browser THEN "browser"
                                                ELSE "rss_only"]
                  /\ crawler' = AfterFetchError(crawler, out, now)
                  /\ svc' = Disabling(sv, crawler, out, now)

\* lines 126-169: self._browser.fetch(url); "except Exception" turns anything
\* that is no FetchError into an UNKNOWN attempt
BrowserFetch(out, g, jitter) ==
    /\ fcall.pc = "browser"
    /\ out \in BrowserOutcomes
    /\ g \in GrantTimes(limiter, clock) /\ g <= MaxTime /\ jitter \in Jitters(limiter)
    /\ clock' = g
    /\ limiter' = Reserve(limiter, g, jitter)
    /\ LET fc == [fcall EXCEPT !.acquires = @ + 1,
                               !.requests = IF out = "RuntimeError" THEN @ ELSE @ + 1,
                               !.browser_out = out]
           sv == IF out = "RuntimeError" THEN Granted(svc, g)
                 ELSE Requested(Granted(svc, g), g)
       IN IF out = "page" /\ Constructs(BrowserKwargs)
          THEN /\ fcall' = Returned([fc EXCEPT !.attempts =
                                        Append(@, Attempt("BROWSER", TRUE, None))],
                                    CONF_FULLTEXT_BROWSER)
               /\ crawler' = crawler
               /\ svc' = sv
          ELSE IF out \in {"page", "RuntimeError"}
          THEN /\ fcall' = [fc EXCEPT !.attempts =
                                Append(@, Attempt("BROWSER", FALSE, Some(ERROR_UNKNOWN))),
                                      !.pc = "rss_only"]
               /\ crawler' = crawler
               /\ svc' = sv
          ELSE /\ fcall' = [fc EXCEPT !.attempts =
                                Append(@, Attempt("BROWSER", FALSE, Some(out))),
                                      !.pc = "rss_only"]
               /\ crawler' = AfterFetchError(crawler, out, g)
               /\ svc' = Disabling(sv, crawler, out, g)

\* "return self._rss_only(rss_fallback_text), attempts" (lines 87, 118, 123,
\* 154, 158, 171)
RssOnly ==
    /\ fcall.pc = "rss_only"
    /\ fcall' = IF Constructs(RssOnlyKwargs) THEN Returned(fcall, CONF_RSS_ONLY)
                ELSE Raised(fcall)
    /\ UNCHANGED <<clock, crawler, limiter, svc>>

\* the caller has the result (or the exception) of the call
FetchEnd ==
    /\ fcall.pc = "done"
    /\ fcall' = NoCall
    /\ UNCHANGED <<clock, crawler, limiter, svc>>

\* CrawlerService.enable_fulltext
EnableFulltext ==
    /\ fcall.pc = "idle"
    /\ is_disabled(crawler, clock)
    /\ crawler' = enable(crawler)
    /\ svc' = [svc EXCEPT !.antibotAt = None, !.loginAt = None]
    /\ UNCHANGED <<clock, limiter, fcall>>

\* a second passes
Tick ==
    /\ clock < MaxTime
    /\ clock' = clock + 1
    /\ UNCHANGED <<crawler, limiter, fcall, svc>>

\* limiter.acquire() called on its own
Acquire(g, jitter) ==
    /\ svc.calls < MaxCalls
    /\ g \in GrantTimes(limiter, clock) /\ g <= MaxTime /\ jitter \in Jitters(limiter)
    /\ clock' = g
    /\ limiter' = Reserve(limiter, g, jitter)
    /\ svc' = [Granted(svc, g) EXCEPT !.calls = @ + 1]
    /\ UNCHANGED <<crawler, fcall>>

\* limiter.next_allowed_in_seconds() called
NextAllowedQuery ==
    /\ svc.queries < MaxCalls
    /\ svc' = [svc EXCEPT !.queries = @ + 1,
                          !.lastQuery = Some([at |-> clock,
                                              left |-> next_allowed_in_seconds(limiter, clock)])]
    /\ UNCHANGED <<clock, crawler, limiter, fcall>>

\* settings of the crawler and of the limiter
CrawlerConfigs ==
    {NewCrawler(stop, backoff, browser) :
        stop \in BOOLEAN, backoff \in -1..MaxInterval, browser \in BOOLEAN}
LimiterConfigs ==
    {NewLimiter(min_interval, jitter) : min_interval \in -1..MaxInterval, jitter \in 0..1}

(* ------------------------ AI client (ai/client.py) --------------------- *)
\* storage.types.SummaryResult: a frozen dataclass whose fields have no defaults
SummaryResultFields ==
    {"model", "prompt_version", "summary_text", "key_points", "actions",
     "image_summaries", "token_in", "token_out"}

\* the keyword arguments of the SummaryResult(...) call of _normalize_result
NormalizeKwargs ==
    {"model", "prompt_version", "summary_text", "key_points", "actions", "token_in",
     "token_out"}

\* _normalize_result: the dataclass __init__ raises TypeError unless every
\* field is given
NormalizeReturns == SummaryResultFields \subseteq NormalizeKwargs

\* what self._client.post meets: a 2xx response whose content is a JSON object
\* or plain text, a 4xx other than 429, a 429, a 5xx, a transport error or
\* timeout
Responses == {"json", "plain", "4xx", "429", "5xx", "transport"}
Successes == {"json", "plain"}
StatusErrors == {"4xx", "429", "5xx"}

\* _post, line 101
PostAttempts(max_retries) == Max0(max_retries) + 1

\* the settings of the client and a summarize call that has not started
NewAiClient(configured, max_retries, prefer_chat, fallback) ==
    [configured |-> configured,              \* base_url, api_key and model are set
     max_retries |-> max_retries,
     prefer_chat_completions |-> prefer_chat,
     fallback_to_responses |-> fallback,
     pc |-> "idle",
     path |-> "",          \* the _post call in progress: chat_format | chat | responses
     i |-> 0,              \* i of the loop of _post
     resps |-> <<>>,       \* history: the responses the _post call in progress met
     requests |-> 0,       \* history: requests of the summarize call
     content |-> "",       \* history: content of the last successful response
     summary_text |-> "",  \* summary_text of the result: truncated | json | plain
     outcome |-> "none"]   \* returned | raised

AiReturned(a, text) == [a EXCEPT !.pc = "done", !.outcome = "returned", !.summary_text = text]
AiRaised(a) == [a EXCEPT !.pc = "done", !.outcome = "raised"]

\* a new _post call on the given path
AiPost(a, path) == [a EXCEPT !.pc = "post", !.path = path, !.i = 0, !.resps = <<>>]

\* _summarize_once, lines 152-160: an exception of _summarize_chat falls back
\* to _summarize_responses when the settings say so; an exception of
\* _summarize_responses propagates
AiException(a) ==
    IF a.path \in {"chat_format", "chat"} /\ a.fallback_to_responses
    THEN AiPost(a, "responses")
    ELSE AiRaised(a)

\* _summarize_chat, lines 222-227: an HTTPStatusError of the request with
\* response_format is answered by the same request without it
AiStatusError(a) ==
    IF a.path = "chat_format" THEN AiPost(a, "chat") ELSE AiException(a)

\* summarize, lines 126-132 and 149-150 (a text no longer than max_chars)
SummarizeStart ==
    /\ aic.pc = "idle"
    /\ aic' = IF ~aic.configured
              THEN IF NormalizeReturns THEN AiReturned(aic, "truncated") ELSE AiRaised(aic)
              ELSE AiPost([aic EXCEPT !.requests = 0, !.content = "", !.summary_text = "",
                                      !.outcome = "none"],
                          IF aic.prefer_chat_completions THEN "chat_format" ELSE "responses")
    /\ UNCHANGED <<chk, rcall, tcall, acq, acall, fcalls>>

\* one iteration of the loop of _post, lines 104-121, and what the caller does
\* with its result: _extract_json(content) or the plain content, then
\* _normalize_result
PostAttempt(resp) ==
    /\ aic.pc = "post"
    /\ resp \in Responses
    /\ LET a == [aic EXCEPT !.requests = @ + 1, !.resps = Append(@, resp)]
       IN aic' =
            IF resp \in Successes
            THEN LET b == [a EXCEPT !.content = resp]
                 IN IF NormalizeReturns THEN AiReturned(b, resp) ELSE AiException(b)
            ELSE IF a.i >= PostAttempts(a.max_retries) - 1
            THEN IF resp \in StatusErrors THEN AiStatusError(a) ELSE AiException(a)
            ELSE [a EXCEPT !.i = @ + 1]
    /\ UNCHANGED <<chk, rcall, tcall, acq, acall, fcalls>>

\* the caller has the result (or the exception) of summarize
SummarizeEnd ==
    /\ aic.pc = "done"
    /\ aic' = [aic EXCEPT !.pc = "idle"]
    /\ UNCHANGED <<chk, rcall, tcall, acq, acall, fcalls>>

AiConfigs ==
    {NewAiClient(configured, max_retries, prefer_chat, fallback) :
        configured \in BOOLEAN, max_retries \in -1..MaxRetries,
        prefer_chat \in BOOLEAN, fallback \in BOOLEAN}

\* _chunk_text, line 163
EffectiveChunk(chunk_chars) == IF chunk_chars > MinChunk THEN chunk_chars ELSE MinChunk

Min2(a, b) == IF a < b THEN a ELSE b

\* _chunk_text, line 164
EffectiveOverlap(c, chunk_overlap_chars) == Max0(Min2(c - 1, chunk_overlap_chars))

\* a loop that starts the next chunk where the last one ended
NextStartAtEnd(end, overlap) == end

\* _chunk_text, line 174
NextStart(end, overlap) == Max0(end - overlap)

\* the loop of _chunk_text, lines 169-174, on a text of n characters: the
\* chunks text[start:end] as pairs <<start, end>>. A loop that has not ended
\* after fuel iterations is cut, with <<n, n>> as its last pair
RECURSIVE ChunkFrom(_, _, _, _, _)
ChunkFrom(start, n, c, overlap, fuel) ==
    IF ~(start < n) THEN <<>>
    ELSE IF fuel = 0 THEN << <<n, n>> >>
    ELSE LET end == Min2(n, start + c)
         IN IF end >= n THEN << <<start, end>> >>
            ELSE << <<start, end>> >>
                    \o ChunkFrom(NextStart(end, overlap), n, c, overlap, fuel - 1)

\* a _chunk_text that cuts at the configured size without overlap
ChunkTextNoOverlap(n, chunk_chars, chunk_overlap_chars) ==
    ChunkFrom(0, n, EffectiveChunk(chunk_chars), 0, n)

\* OpenAICompatClient._chunk_text on a text of n characters
_chunk_text(n, chunk_chars, chunk_overlap_chars) ==
    LET c == EffectiveChunk(chunk_chars)
    IN ChunkFrom(0, n, c, EffectiveOverlap(c, chunk_overlap_chars), n)

\* the inputs of a _chunk_text call: texts up to MaxTextLen characters, the
\* settings AI_CHUNK_CHARS and AI_CHUNK_OVERLAP_CHARS around their clamps
ChunkInputs ==
    [n : 0..MaxTextLen,
     chunk_chars : {0, MinChunk, MinChunk + 1},
     chunk_overlap_chars : {-1, 0, 1, MinChunk - 5, MinChunk - 1, MinChunk, MinChunk + 5}]

\* self._chunk_text(text)
ChunkText ==
    /\ chk.chunks = None
    /\ chk' = [chk EXCEPT !.chunks =
                  Some(_chunk_text(chk.n, chk.chunk_chars, chk.chunk_overlap_chars))]
    /\ UNCHANGED <<aic, rcall, tcall, acq, acall, fcalls>>

\* no _chunk_text call
\* a call that has not split its text: no chunk summarised (idx), no
\* _summarize_once call made (history calls), summarize not over (outcome)
NewChunkCall(n, chunk_chars, chunk_overlap_chars) ==
    [n |-> n, chunk_chars |-> chunk_chars, chunk_overlap_chars |-> chunk_overlap_chars,
     chunks |-> None, idx |-> 0, calls |-> <<>>, outcome |-> "none"]

NoChunkCall == NewChunkCall(0, 0, 0)

\* the call label of the merge request in the history calls
MergeCall == 0

\* _summarize_long_text, lines 182-207: the next _summarize_once call, on the
\* next chunk while the loop runs and on the merge request after it. ok says
\* that the endpoint answered the call's last request with a 2xx response; the
\* result is then built by _normalize_result. An exception ends summarize
SummarizeOnce(ok) ==
    /\ chk.chunks # None /\ chk.outcome = "none"
    /\ LET n == Len(chk.chunks[1])
           inLoop == chk.idx < n
           returns == ok /\ NormalizeReturns
       IN chk' = [chk EXCEPT
                    !.calls = Append(@, [call |-> IF inLoop THEN chk.idx + 1 ELSE MergeCall,
                                         ok |-> ok]),
                    !.idx = IF inLoop /\ returns THEN @ + 1 ELSE @,
                    !.outcome = IF ~returns THEN "raised"
                                ELSE IF inLoop THEN "none" ELSE "returned"]
    /\ UNCHANGED <<aic, rcall, tcall, acq, acall, fcalls>>

\* build_app_context: an unconfigured AI client, no chunking call, no scoring
\* call
InitAi ==
    /\ aic = NewAiClient(FALSE, 0, TRUE, TRUE)
    /\ chk = NoChunkCall
    /\ rcall = NoRuleCall
    /\ tcall = NoThresholdCall
    /\ acq = NoAcquires
    /\ acall = NoAttemptCall
    /\ fcalls = NoFetchCalls

InitSvcHistory ==
    [antibotAt |-> None, loginAt |-> None, grants |-> <<>>, reqs |-> <<>>,
     lastQuery |-> None, calls |-> 0, queries |-> 0]

\* build_app_context with the default settings: STOP_FULLTEXT_ON_ANTIBOT and
\* ALLOW_BROWSER_FALLBACK on
InitSvc ==
    /\ InitAi
    /\ pruned = {} /\ cleanups = 0
    /\ clock = 0
    /\ crawler = NewCrawler(TRUE, MaxInterval, TRUE)
    /\ limiter = NewLimiter(1, 1)
    /\ fcall = NoCall
    /\ svc = InitSvcHistory

\* ALERT_N_FETCH, ALERT_N_LOGIN and ALERT_N_AI set to 0: no alerts
AlertsOff == [c \in CounterNames |-> 0]

InitAux == InitSvc /\ alert_n = AlertsOff

(* ------------------------------ behaviours ----------------------------- *)
\* label rows the database holds for posts outside the modelled feed window
Group(score, y, n) == [score |-> score, y |-> y, n |-> n]
LabelHistories ==
    {[groups |-> <<>>, unscored |-> 0],
     [groups |-> <<Group(20, 1, 1), Group(5, 0, 9998)>>, unscored |-> 0],
     [groups |-> <<Group(10, 0, 10000)>>, unscored |-> 0],
     [groups |-> <<Group(20, 1, 5000), Group(10, 0, 5000)>>, unscored |-> 0],
     [groups |-> <<Group(5, 1, 6000), Group(10, 0, 4000)>>, unscored |-> 0]}

InitDb ==
    /\ posts = <<>>
    /\ updOrder = <<>>
    /\ contents = {}
    /\ fetch_attempts = [p \in PostIds |-> 0]
    /\ ai_summaries = {}
    /\ scores = <<>>
    /\ deliveries = [p \in PostIds |-> 0]
    /\ labels = <<>>
    /\ labelHist \in LabelHistories
    /\ fingerprints = <<>>
    /\ fpOrder = <<>>
    /\ seq = 0

\* Config.alert_n_fetch / alert_n_login / alert_n_ai (environment settings);
\* 0 switches the alert off
AlertConfigs == {[c \in CounterNames |-> n] : n \in 0..MaxAlertN}

InitMem ==
    /\ paused = FALSE
    /\ pc = [w \in Workers |-> "idle"]
    /\ run = [w \in Workers |-> InitRun]
    /\ sent = [p \in PostIds |-> 0]
    /\ wasReset = {}
    /\ owed = [p \in PostIds |-> {}]
    /\ faults = 0 /\ restarts = 0 /\ resets = 0 /\ labelOps = 0
    /\ stats = NoFailures /\ alerted = NoFailures
    /\ alert_n \in AlertConfigs

\* the steps of a process_one run when the bot is not paused
DrainStep(w) ==
    \/ ProcessEmpty(w) \/ ProcessTake(w)
    \/ CrawlReturns(w) \/ CrawlRaises(w) \/ SaveContent(w) \/ SetFailed(w)
    \/ AddFetchAttempt(w) \/ LoadSummary(w) \/ SummarizeReturns(w)
    \/ SummarizeRaises(w) \/ SaveSummary(w) \/ ScoreAndSave(w) \/ Decide(w)
    \/ CheckDelivery(w) \/ Send(w) \/ RecordDelivery(w) \/ SetIgnored(w)
    \/ UpdateFingerprint(w)

ProcessStep(w) == ProcessPaused(w) \/ DrainStep(w)

ProcessRaise(w) ==
    \/ StorageWriteRaises(w) \/ SaveSummaryRaises(w) \/ SaveContentRaises(w)
    \/ SendRaises(w)

\* the program as started by __main__ on a fresh database: one process_job,
\* the feed poll announcing one entry, /reprocess, exceptions, restarts. /pause
\* only delays the start of a run; SpecDeliver follows it
Init == InitDb /\ InitMem /\ InitAux /\ workers = {1} /\ labelHist.groups = <<>>

Next ==
    \/ \E w \in Workers : DrainStep(w)
    \/ \E w \in Workers : ProcessRaise(w)
    \/ UpsertFromFeed(FeedItem(1))
    \/ \E p \in PostIds : ResetPost(p)
    \/ Restart

Spec == Init /\ [][Next]_vars

\* the delivery decision over a database that already holds label rows: one
\* feed entry, the label buttons, pause and resume, exceptions
InitDeliver == InitDb /\ InitMem /\ InitAux /\ workers = {1}

NextDeliver ==
    \/ \E w \in Workers : ProcessStep(w)
    \/ \E w \in Workers : ProcessRaise(w)
    \/ UpsertFromFeed(FeedItem(1))
    \/ \E p \in PostIds, label \in {_LABEL_USEFUL, _LABEL_USELESS} : UpsertLabel(p, label)
    \/ Pause \/ Resume

SpecDeliver == InitDeliver /\ [][NextDeliver]_vars

\* the queue of several feed entries while the enrichment services are down:
\* every crawler call and every AI call raises
QueueStep(w) ==
    \/ ProcessEmpty(w) \/ ProcessTake(w)
    \/ CrawlRaises(w) \/ SetFailed(w)
    \/ LoadSummary(w) \/ SummarizeRaises(w) \/ ScoreAndSave(w) \/ Decide(w)
    \/ CheckDelivery(w) \/ Send(w) \/ RecordDelivery(w) \/ SetIgnored(w)
    \/ UpdateFingerprint(w)

QueueRaise(w) == StorageWriteRaises(w) \/ SendRaises(w)

NextQueue ==
    \/ \E w \in Workers : QueueStep(w)
    \/ \E w \in Workers : QueueRaise(w)
    \/ \E item \in FeedItems : UpsertFromFeed(item)

SpecQueue == Init /\ [][NextQueue]_vars

\* two process_one invocations in flight at once, over a fresh database, one
\* feed entry, the enrichment services down
InitConc == InitDb /\ InitMem /\ InitAux /\ workers = {1, 2} /\ labelHist.groups = <<>>

NextConc ==
    \/ \E w \in Workers : QueueStep(w)
    \/ UpsertFromFeed(FeedItem(1))

SpecConc == InitConc /\ [][NextConc]_vars

\* the feed announcing arbitrary entries: upsert_from_feed alone
NextUpsert == \E item \in UpsertItems : UpsertFromFeed(item)

SpecUpsert == Init /\ [][NextUpsert]_vars

\* the feed announcing again, under changed titles, URLs and guids, the items
\* that runs are processing or have processed
ReannounceItems ==
    {FeedItem(1),
     [FeedItem(1) EXCEPT !.title = NumTitles],
     [FeedItem(1) EXCEPT !.url = [page |-> NumItems, utm |-> TRUE]],
     [guid |-> None, url |-> [page |-> 1, utm |-> TRUE], title |-> NumTitles]}

NextReannounce ==
    \/ \E w \in Workers : QueueStep(w)
    \/ \E item \in ReannounceItems : UpsertFromFeed(item)

SpecReannounce == Init /\ [][NextReannounce]_vars

\* process_job draining the queue: the bot is not paused, no storage write and
\* no send raises, and the feed announces the same two items again and again.
\* process_job calls process_one again after every return ("while True"), so a
\* step of the run that stays possible is eventually taken
DrainFeed == {FeedItem(1), FeedItem(2)}

NextDrain ==
    \/ \E w \in Workers : DrainStep(w)
    \/ \E item \in DrainFeed : UpsertFromFeed(item)

SpecDrain == Init /\ [][NextDrain]_vars

\* /reprocess beside the runs of process_job
NextReprocess ==
    \/ \E w \in Workers : DrainStep(w)
    \/ UpsertFromFeed(FeedItem(1))
    \/ \E p \in PostIds : ResetPostInFlight(p)

SpecReprocess == Init /\ [][NextReprocess]_vars
SpecDrainFair == SpecDrain /\ WF_vars(\E w \in Workers : DrainStep(w))

\* retention: one feed entry announced again and again, processed with the
\* enrichment services down, and cleanup_job
NextRetention ==
    \/ \E w \in Workers : QueueStep(w)
    \/ UpsertFromFeed(FeedItem(1))
    \/ \E k \in 0..NumItems, kids \in SUBSET PostIds, j \in 0..NumItems : Cleanup(k, kids, j)

SpecRetention == Init /\ [][NextRetention]_vars

\* cleanup_job beside runs that a failing storage write may end early, which
\* leaves rows resting in every status
NextCleanup ==
    \/ NextRetention
    \/ \E w \in Workers : StorageWriteRaises(w)

SpecCleanup == Init /\ [][NextCleanup]_vars

\* the failure counters and their alerts under every threshold setting: one
\* process_job over one feed entry that reset_post queues again
InitAlerts == InitDb /\ InitMem /\ InitSvc /\ workers = {1} /\ labelHist.groups = <<>>

AlertStep(w) ==
    \/ ProcessEmpty(w) \/ ProcessTake(w)
    \/ CrawlReturns(w) \/ CrawlRaises(w) \/ SaveContent(w) \/ SaveContentRaises(w)
    \/ SetFailed(w) \/ AddFetchAttempt(w) \/ LoadSummary(w) \/ SummarizeReturns(w)
    \/ SummarizeRaises(w) \/ SaveSummary(w) \/ ScoreAndSave(w) \/ Decide(w)
    \/ CheckDelivery(w) \/ Send(w) \/ RecordDelivery(w) \/ SetIgnored(w)
    \/ UpdateFingerprint(w)

NextAlerts ==
    \/ \E w \in Workers : AlertStep(w)
    \/ UpsertFromFeed(FeedItem(1))
    \/ \E p \in PostIds : ResetPost(p)

SpecAlerts == InitAlerts /\ [][NextAlerts]_vars

\* the crawler on its own: sequential fetch_best_effort calls, time passing,
\* enable_fulltext
InitCrawler ==
    /\ InitDb /\ InitMem /\ workers = {1} /\ labelHist.groups = <<>>
    /\ alert_n = AlertsOff
    /\ InitAi
    /\ pruned = {} /\ cleanups = 0
    /\ clock = 0
    /\ crawler \in CrawlerConfigs
    /\ limiter \in {NewLimiter(min_interval, 0) : min_interval \in 1..MaxInterval}
    /\ fcall = NoCall
    /\ svc = InitSvcHistory

CrawlerStep ==
    \/ FetchStart
    \/ \E out \in HttpOutcomes, g \in 0..MaxTime, jitter \in 0..1, tries \in 1..GetAttempts :
          HttpFetch(out, g, jitter, tries)
    \/ \E out \in BrowserOutcomes, g \in 0..MaxTime, jitter \in 0..1 : BrowserFetch(out, g, jitter)
    \/ RssOnly
    \/ FetchEnd
    \/ EnableFulltext
    \/ Tick

NextCrawler ==
    CrawlerStep /\ UNCHANGED <<dbVars, memVars, histVars, budgetVars, statVars, pruned, cleanups, aiVars>>

SpecCrawler == InitCrawler /\ [][NextCrawler]_vars

\* two callers of fetch_best_effort whose calls overlap at the awaits, time
\* passing
OverlapStep ==
    \/ \E c \in FetchCallers : OverlapStart(c)
    \/ \E c \in FetchCallers, out \in HttpOutcomes : OverlapHttp(c, out)
    \/ \E c \in FetchCallers, out \in BrowserOutcomes : OverlapBrowser(c, out)
    \/ \E c \in FetchCallers : OverlapEnd(c)
    \/ Tick /\ UNCHANGED fcalls

NextCrawlerConc ==
    /\ OverlapStep
    /\ UNCHANGED <<dbVars, memVars, histVars, budgetVars, statVars, pruned, cleanups,
                   aic, chk, rcall, tcall, acq, acall>>

SpecCrawlerConc == InitCrawler /\ [][NextCrawlerConc]_vars

\* the limiter on its own: sequential acquire and next_allowed_in_seconds
\* calls, time passing
InitLimiter ==
    /\ InitDb /\ InitMem /\ workers = {1} /\ labelHist.groups = <<>>
    /\ alert_n = AlertsOff
    /\ InitAi
    /\ pruned = {} /\ cleanups = 0
    /\ clock \in 0..1
    /\ crawler = NewCrawler(TRUE, MaxInterval, TRUE)
    /\ limiter \in LimiterConfigs
    /\ fcall = NoCall
    /\ svc = InitSvcHistory

LimiterStep ==
    \/ \E g \in 0..MaxTime, jitter \in 0..1 : Acquire(g, jitter)
    \/ NextAllowedQuery
    \/ Tick

NextLimiter ==
    LimiterStep /\ UNCHANGED <<dbVars, memVars, histVars, budgetVars, statVars, pruned, cleanups, aiVars>>

SpecLimiter == InitLimiter /\ [][NextLimiter]_vars

\* the AI client on its own: sequential summarize calls under every setting
InitAiClient ==
    /\ InitDb /\ InitMem /\ workers = {1} /\ labelHist.groups = <<>>
    /\ alert_n = AlertsOff
    /\ pruned = {} /\ cleanups = 0
    /\ clock = 0
    /\ crawler = NewCrawler(TRUE, MaxInterval, TRUE)
    /\ limiter = NewLimiter(1, 1)
    /\ fcall = NoCall
    /\ svc = InitSvcHistory
    /\ aic \in AiConfigs
    /\ chk = NoChunkCall
    /\ rcall = NoRuleCall
    /\ tcall = NoThresholdCall
    /\ acq = NoAcquires
    /\ acall = NoAttemptCall
    /\ fcalls = NoFetchCalls

AiStep ==
    \/ SummarizeStart
    \/ \E resp \in Responses : PostAttempt(resp)
    \/ SummarizeEnd

NextAiClient ==
    AiStep /\ UNCHANGED <<dbVars, memVars, histVars, budgetVars, statVars, pruned, cleanups,
                          svcVars>>

SpecAiClient == InitAiClient /\ [][NextAiClient]_vars

\* _chunk_text on its own, over every input
InitChunk ==
    /\ InitDb /\ InitMem /\ workers = {1} /\ labelHist.groups = <<>>
    /\ alert_n = AlertsOff
    /\ pruned = {} /\ cleanups = 0
    /\ clock = 0
    /\ crawler = NewCrawler(TRUE, MaxInterval, TRUE)
    /\ limiter = NewLimiter(1, 1)
    /\ fcall = NoCall
    /\ svc = InitSvcHistory
    /\ aic = NewAiClient(TRUE, 0, TRUE, TRUE)
    /\ \E in \in ChunkInputs :
          chk = NewChunkCall(in.n, in.chunk_chars, in.chunk_overlap_chars)
    /\ rcall = NoRuleCall
    /\ tcall = NoThresholdCall
    /\ acq = NoAcquires
    /\ acall = NoAttemptCall
    /\ fcalls = NoFetchCalls

NextChunk ==
    ChunkText /\ UNCHANGED <<dbVars, memVars, histVars, budgetVars, statVars, pruned, cleanups,
                             svcVars>>

SpecChunk == InitChunk /\ [][NextChunk]_vars

\* summarize on texts longer than max_chars = max(1000, max_input_chars), the
\* setting at its floor: lengths just over the ceiling and around one chunk
LongTexts == {MaxCharsFloor + 1, MinChunk, MinChunk + 1, MaxTextLen}
InitLongText ==
    /\ InitDb /\ InitMem /\ workers = {1} /\ labelHist.groups = <<>>
    /\ alert_n = AlertsOff
    /\ pruned = {} /\ cleanups = 0
    /\ clock = 0
    /\ crawler = NewCrawler(TRUE, MaxInterval, TRUE)
    /\ limiter = NewLimiter(1, 1)
    /\ fcall = NoCall
    /\ svc = InitSvcHistory
    /\ aic = NewAiClient(TRUE, 0, TRUE, TRUE)
    /\ \E in \in ChunkInputs :
          /\ in.n \in LongTexts
          /\ chk = NewChunkCall(in.n, in.chunk_chars, in.chunk_overlap_chars)
    /\ rcall = NoRuleCall
    /\ tcall = NoThresholdCall
    /\ acq = NoAcquires
    /\ acall = NoAttemptCall
    /\ fcalls = NoFetchCalls

NextLongText ==
    /\ \/ ChunkText
       \/ \E ok \in BOOLEAN : SummarizeOnce(ok)
    /\ UNCHANGED <<dbVars, memVars, histVars, budgetVars, statVars, pruned, cleanups, svcVars>>

SpecLongText == InitLongText /\ [][NextLongText]_vars

\* RuleEngine.score on its own, over rules, titles and texts
InitRules ==
    /\ InitDb /\ InitMem /\ workers = {1} /\ labelHist.groups = <<>>
    /\ alert_n = AlertsOff
    /\ pruned = {} /\ cleanups = 0
    /\ clock = 0
    /\ crawler = NewCrawler(TRUE, MaxInterval, TRUE)
    /\ limiter = NewLimiter(1, 1)
    /\ fcall = NoCall
    /\ svc = InitSvcHistory
    /\ aic = NewAiClient(TRUE, 0, TRUE, TRUE)
    /\ chk = NoChunkCall
    /\ \E rules \in RuleSets, title \in Strings, text \in Strings, total \in ScoreTotals :
          rcall = [rules |-> rules, title |-> title, text |-> text, total |-> total,
                   result |-> None]
    /\ tcall = NoThresholdCall
    /\ acq = NoAcquires
    /\ acall = NoAttemptCall
    /\ fcalls = NoFetchCalls

NextRules ==
    Score /\ UNCHANGED <<dbVars, memVars, histVars, budgetVars, statVars, pruned, cleanups,
                         svcVars>>

SpecRules == InitRules /\ [][NextRules]_vars

\* _compute_best_threshold on its own, over label histories
InitThreshold ==
    /\ InitDb /\ InitMem /\ workers = {1} /\ labelHist.groups = <<>>
    /\ alert_n = AlertsOff
    /\ pruned = {} /\ cleanups = 0
    /\ clock = 0
    /\ crawler = NewCrawler(TRUE, MaxInterval, TRUE)
    /\ limiter = NewLimiter(1, 1)
    /\ fcall = NoCall
    /\ svc = InitSvcHistory
    /\ aic = NewAiClient(TRUE, 0, TRUE, TRUE)
    /\ chk = NoChunkCall
    /\ rcall = NoRuleCall
    /\ \E labeled \in ThresholdInputs : tcall = [labeled |-> labeled, result |-> None]
    /\ acq = NoAcquires
    /\ acall = NoAttemptCall
    /\ fcalls = NoFetchCalls

NextThreshold ==
    /\ ComputeBestThreshold
    /\ UNCHANGED <<dbVars, memVars, histVars, budgetVars, statVars, pruned, cleanups,
                   svcVars, aic, chk, rcall, acq, acall, fcalls>>

SpecThreshold == InitThreshold /\ [][NextThreshold]_vars

\* the limiter shared by concurrent callers, time passing
InitLimiterConc ==
    /\ InitDb /\ InitMem /\ workers = {1} /\ labelHist.groups = <<>>
    /\ alert_n = AlertsOff
    /\ InitAi
    /\ pruned = {} /\ cleanups = 0
    /\ clock = 0
    /\ crawler = NewCrawler(TRUE, MaxInterval, TRUE)
    /\ limiter \in LimiterConfigs
    /\ fcall = NoCall
    /\ svc = InitSvcHistory

LimiterConcStep ==
    \/ \E c \in Callers : AcquireCall(c)
    \/ \E c \in Callers, jitter \in 0..1 : AcquireEnter(c, jitter)
    \/ \E c \in Callers, jitter \in 0..1 : AcquireWake(c, jitter)
    \/ Tick /\ UNCHANGED acq

NextLimiterConc ==
    /\ LimiterConcStep
    /\ UNCHANGED <<dbVars, memVars, histVars, budgetVars, statVars, pruned, cleanups,
                   aic, chk, rcall, tcall, acall, fcalls>>

SpecLimiterConc == InitLimiterConc /\ [][NextLimiterConc]_vars

\* the full-text decision of process_one on its own, under every configuration
InitAttempt ==
    /\ InitDb /\ InitMem /\ workers = {1} /\ labelHist.groups = <<>>
    /\ alert_n = AlertsOff
    /\ pruned = {} /\ cleanups = 0
    /\ clock = 0
    /\ crawler = NewCrawler(TRUE, MaxInterval, TRUE)
    /\ limiter = NewLimiter(1, 1)
    /\ fcall = NoCall
    /\ svc = InitSvcHistory
    /\ aic = NewAiClient(FALSE, 0, TRUE, TRUE)
    /\ chk = NoChunkCall
    /\ rcall = NoRuleCall
    /\ tcall = NoThresholdCall
    /\ acq = NoAcquires
    /\ \E i \in AttemptInputs :
        acall = [input |-> i, pc |-> "start", result |-> None, crawler_calls |-> 0]
    /\ fcalls = NoFetchCalls

NextAttempt ==
    /\ ShouldAttempt \/ FetchFulltext \/ UseRssOnly
    /\ UNCHANGED <<dbVars, memVars, histVars, budgetVars, statVars, pruned, cleanups, svcVars>>

SpecAttempt == InitAttempt /\ [][NextAttempt]_vars

(* ============================== claims ================================= *)
QueuedIn(ps, id) == id \in DOMAIN ps /\ ps[id].status \in {STATUS_NEW, STATUS_FAILED}
Scored(w) == Running(w) /\ run[w].score # None
Decision(w) == run[w].score[1].decision
ScoreTotal(w) == run[w].score[1].score_total
Decided(w) == Scored(w) /\ run[w].deliver # None
\* worker w's run ends in this step (it returns or its exception reaches
\* process_job); a restart is not such a step
RunEnds(w) == Running(w) /\ pc'[w] = "idle" /\ restarts' = restarts

\* C1: at-most-once per destination. Over process_one runs, feed
\* re-announcements, exceptions, pauses and restarts, a post that reset_post was
\* never applied to is sent to the target chat at most once, and no post ever
\* has two deliveries rows for the target chat.
C1_AtMostOnce ==
    \A p \in PostIds : (p \notin wasReset => sent[p] <= 1) /\ deliveries[p] <= 1

\* C1 witness: the post was sent once, the delivery row was never written (the
\* write raised), the process was restarted, and the post is not taken again.
C1_Witness ==
    /\ sent[1] = 1 /\ 1 \notin wasReset /\ deliveries[1] = 0
    /\ faults = 1 /\ restarts = 1 /\ pc[1] = "idle"
    /\ TakeNextForProcessing(posts, updOrder) = NoPost

\* C2: when the crawler call raised during a run, the item is in the queue
\* (status NEW or FAILED) when that run ends.
C2_FetchFailureRequeued ==
    [][\A w \in Workers :
         (RunEnds(w) /\ run[w].fetch_raised) => QueuedIn(posts', Post(w))]_vars

\* C3: a run that decided to deliver and ends without a delivery row for the
\* item leaves the item in the queue, so that a later tick sends it.
C3_UndeliveredRequeued ==
    [][\A w \in Workers :
         (RunEnds(w) /\ run[w].deliver = Some(TRUE) /\ deliveries'[Post(w)] = 0)
             => QueuedIn(posts', Post(w))]_vars

\* C4: a storage write that raises and aborts the tick leaves the item with
\* the status it had when the tick took it, and in the queue.
C4_AbortKeepsPriorStatus ==
    [][\A w \in Workers :
         (RunEnds(w) /\ pc[w] \in UncaughtWrites /\ faults' = faults + 1)
             => /\ posts'[Post(w)].status = run[w].start_status
                /\ QueuedIn(posts', Post(w))]_vars

\* C5: no starvation. A run never starts on a post while an item that was
\* pending when that post's previous run ended (with the post still queued) has
\* not had a turn since.
C5_RetryAfterOthers ==
    \A w \in Workers : Running(w) => owed[Post(w)] = {}

\* C6: two concurrent process_one invocations never send two notifications
\* for the same post to the target chat.
C6_ConcurrentAtMostOnce ==
    \A p \in PostIds : sent[p] <= 1

\* C7 (as stated): a run whose decision is IGNORE never reaches the delivery
\* branch (has_delivery, send, record_delivery).
C7_IgnoreNeverSent ==
    \A w \in Workers :
        (Scored(w) /\ Decision(w) = "IGNORE")
            => pc[w] \notin {"has_delivery", "send", "record_delivery"}

\* C7 (amended): once at least 10,000 labels exist, a run whose decision is
\* IGNORE and whose score is below the adaptive threshold (or whose adaptive
\* threshold is unbounded) does not reach the delivery branch, sends nothing,
\* and has written status IGNORED when it is about to return.
C7_IgnoreBelowAdaptiveNeverSent ==
    \A w \in Workers :
        (/\ Decided(w) /\ Decision(w) = "IGNORE"
         /\ run[w].n_labels # None /\ run[w].n_labels[1] >= _MIN_LABELS_TO_AUTOFILTER
         /\ run[w].threshold # None
         /\ (run[w].threshold[1] = Inf \/ ScoreTotal(w) < run[w].threshold[1]))
            => /\ pc[w] \in {"set_ignored", "update_fingerprint"}
               /\ sent[Post(w)] = 0
               /\ pc[w] = "update_fingerprint" => posts[Post(w)].status = STATUS_IGNORED

\* C7 witness: 10,000 labels, adaptive threshold 20, an IGNORE item scored 10
\* has been marked IGNORED and was not sent.
C7_Witness ==
    /\ pc[1] = "update_fingerprint" /\ Scored(1) /\ Decision(1) = "IGNORE"
    /\ run[1].n_labels = Some(_MIN_LABELS_TO_AUTOFILTER)
    /\ run[1].threshold = Some(20) /\ ScoreTotal(1) = 10
    /\ posts[Post(1)].status = STATUS_IGNORED /\ sent[Post(1)] = 0

\* C8: a run whose decision is BLACKLIST gets deliver = false whatever the
\* labels are, never reaches the delivery branch, sends nothing, and has
\* written status IGNORED when it is about to return.
C8_BlacklistNeverSent ==
    \A w \in Workers :
        (Scored(w) /\ Decision(w) = "BLACKLIST")
            => /\ run[w].deliver \in {None, Some(FALSE)}
               /\ pc[w] \in {"decide", "set_ignored", "update_fingerprint"}
               /\ sent[Post(w)] = 0
               /\ pc[w] = "update_fingerprint" => posts[Post(w)].status = STATUS_IGNORED

\* C8 witness: a BLACKLIST run in the cold start (where every other decision
\* is delivered) has been marked IGNORED.
C8_Witness ==
    /\ pc[1] = "update_fingerprint" /\ Scored(1) /\ Decision(1) = "BLACKLIST"
    /\ CountLabels(labelHist, labels) < _MIN_LABELS_TO_AUTOFILTER
    /\ posts[Post(1)].status = STATUS_IGNORED

\* C9: cold start. While fewer than 10,000 labels exist, _should_deliver is
\* true for every decision other than BLACKLIST, and the run enters the
\* delivery branch.
C9_ColdStartDelivers ==
    \A w \in Workers :
        (/\ Decided(w) /\ Decision(w) # "BLACKLIST"
         /\ run[w].n_labels # None /\ run[w].n_labels[1] < _MIN_LABELS_TO_AUTOFILTER)
            => /\ run[w].deliver = Some(TRUE)
               /\ pc[w] \in {"has_delivery", "send", "record_delivery", "update_fingerprint"}

\* C9 witness: 9,999 labels of which one is useful, and an IGNORE item is
\* about to be sent.
C9_Witness ==
    /\ pc[1] = "send" /\ Scored(1) /\ Decision(1) = "IGNORE"
    /\ run[1].n_labels = Some(_MIN_LABELS_TO_AUTOFILTER - 1)
    /\ run[1].deliver = Some(TRUE)

\* C10 (as stated): _should_deliver is true for every WHITELIST item, for every
\* label count and label history.
C10_WhitelistAlwaysDelivers ==
    \A w \in Workers :
        (Decided(w) /\ Decision(w) = "WHITELIST") => run[w].deliver = Some(TRUE)

\* C10 (amended): _should_deliver is true for a WHITELIST item exactly when
\* fewer than 10,000 labels exist or the adaptive threshold is bounded; with
\* 10,000 labels and an unbounded threshold it is false and the item is not sent.
C10_WhitelistDeliversUnlessUnbounded ==
    \A w \in Workers :
        (Decided(w) /\ Decision(w) = "WHITELIST")
            => /\ run[w].n_labels # None
               /\ run[w].deliver =
                    Some(~(/\ run[w].n_labels[1] >= _MIN_LABELS_TO_AUTOFILTER
                           /\ run[w].threshold = Some(Inf)))
               /\ run[w].deliver = Some(FALSE)
                    => pc[w] \in {"set_ignored", "update_fingerprint"}

\* C10 witness: 10,000 labels with a bounded adaptive threshold, and a
\* WHITELIST item is about to be sent.
C10_Witness ==
    /\ pc[1] = "send" /\ Scored(1) /\ Decision(1) = "WHITELIST"
    /\ run[1].n_labels = Some(_MIN_LABELS_TO_AUTOFILTER)
    /\ run[1].threshold # Some(Inf)

\* C11: once a fetch has met an anti-bot page while the stop policy is on, the
\* crawler is disabled in every later state, whatever fetch_best_effort calls
\* follow and however much time passes, until enable_fulltext is called.
C11_AntibotDisablesUntilEnabled ==
    svc.antibotAt # None => is_disabled(crawler, clock)

\* time has passed since the anti-bot detection and a later call started, and
\* ended, with the crawler disabled
C11_Witness ==
    /\ svc.antibotAt # None
    /\ clock >= svc.antibotAt[1] + MaxInterval
    /\ fcall.pc = "done" /\ fcall.started_disabled

\* C12: after a login-required response at time t while the policy is on, with
\* backoff B and no later disabling event, the crawler is disabled at every
\* time before t + B and enabled at every time from t + B on, with no enable
\* call.
C12_LoginBackoffWindow ==
    svc.loginAt # None =>
        (is_disabled(crawler, clock)
            <=> clock < svc.loginAt[1] + crawler._login_backoff_seconds)

\* the window has elapsed with no enable call: the crawler is enabled again
\* and a new call goes on to the HTTP method
C12_Witness ==
    /\ svc.loginAt # None
    /\ crawler._login_backoff_seconds > 0
    /\ clock >= svc.loginAt[1] + crawler._login_backoff_seconds
    /\ ~is_disabled(crawler, clock)
    /\ fcall.pc = "http"

\* C13: a fetch_best_effort call that finds the crawler disabled at its start
\* returns the feed-only fallback (confidence RSS_ONLY) with an empty attempt
\* list, and makes no limiter acquire and no HTTP or browser request.
C13_DisabledReturnsFeedOnly ==
    (fcall.pc = "done" /\ fcall.started_disabled) =>
        /\ fcall.outcome = "returned" /\ fcall.conf = CONF_RSS_ONLY
        /\ fcall.attempts = <<>>
        /\ fcall.acquires = 0 /\ fcall.requests = 0

\* C14: a fetch_best_effort call whose HTTP and browser methods failed only
\* with classified fetch errors returns and raises nothing: the content is
\* the feed-only fallback with confidence RSS_ONLY and every failed try is in
\* the attempt list.
C14_ClassifiedFailuresReturn ==
    (/\ fcall.pc = "done"
     /\ fcall.http_out \in FetchErrorTypes
     /\ fcall.browser_out \in FetchErrorTypes \cup {"none"}) =>
        /\ fcall.outcome = "returned" /\ fcall.conf = CONF_RSS_ONLY
        /\ Len(fcall.attempts) = fcall.acquires
        /\ \A i \in DOMAIN fcall.attempts : ~fcall.attempts[i].ok

\* C15: over any sequence of acquire() calls made one after the other on one
\* limiter, the grant times of two consecutive calls differ by at least the
\* minimum interval.
C15_GrantsSpaced ==
    Len(svc.grants) = 2 => svc.grants[2] - svc.grants[1] >= limiter._min_interval

\* the second of two acquires was granted exactly one (positive) minimum
\* interval after the first: it was called early and had to sleep
C15_Witness ==
    /\ Len(svc.grants) = 2
    /\ limiter._min_interval = MaxInterval
    /\ svc.grants[2] - svc.grants[1] = limiter._min_interval

\* C16: next_allowed_in_seconds() returns a value >= 0 in every limiter state
\* and at every clock value, and the call leaves the limiter as it was.
C16_QueryNonNegativeAndPure ==
    [][svc'.queries # svc.queries =>
          /\ svc'.lastQuery[1].left >= 0
          /\ limiter' = limiter]_vars

\* a query made after slots were granted and after the next allowed time has
\* passed: the difference is negative and the call answered 0
C16_Witness ==
    /\ svc.lastQuery # None
    /\ svc.lastQuery[1].at = clock
    /\ svc.grants # <<>>
    /\ clock > limiter.next_allowed_monotonic
    /\ svc.lastQuery[1].left = 0

\* C17: after any sequence of upsert_from_feed calls no two post rows share a
\* url_hash or a guid that is present, and an upsert of an item whose guid or
\* canonical URL matches an existing row inserts no row and leaves that row
\* with the item's title (the title stands for title and feed summary, which
\* the same statement writes).
C17_IdempotentUpsert ==
    [][/\ \A a, b \in DOMAIN posts' :
            a # b => /\ posts'[a].url_hash # posts'[b].url_hash
                     /\ posts'[a].guid = None \/ posts'[a].guid # posts'[b].guid
       /\ \A item \in UpsertItems :
            (UpsertFromFeed(item) /\ UpsertTarget(posts, item) # NoPost) =>
                /\ DOMAIN posts' = DOMAIN posts
                /\ posts'[UpsertTarget(posts, item)].title = item.title]_vars

\* C18: once cleanup has deleted the post row of a URL whose fingerprint row
\* is kept, a later feed entry with the same canonical URL is recognised
\* through the fingerprint: the URL is not queued as a NEW item, processed and
\* sent again. Stated for the URLs that were sent before their row was deleted:
\* no run sends such a URL.
C18_PrunedUrlNotSentAgain ==
    \A w \in workers :
        pc[w] = "record_delivery" =>
            [url_hash |-> run[w].url_hash, status |-> STATUS_NOTIFIED] \notin pruned

C21_EnrichmentFailuresStillScore ==
    [][\A w \in workers :
          /\ (RunEnds(w) /\ (run[w].fetch_raised \/ run[w].ai_raised)) => Decided(w)
          /\ (pc[w] = "score" /\ pc'[w] = "decide") =>
                /\ run[w].fetch_raised =>
                      /\ run'[w].score_input[1].text = "rss"
                      /\ run'[w].score_input[1].conf = CONF_RSS_ONLY
                /\ run[w].ai_raised => ~run'[w].score_input[1].summary]_vars

\* both the fetch and the summary raised, and the run has scored the feed
\* text alone and decided
C21_Witness ==
    \E w \in workers :
        /\ run[w].fetch_raised /\ run[w].ai_raised /\ Decided(w)
        /\ run[w].score_input = Some([text |-> "rss", summary |-> FALSE,
                                      conf |-> CONF_RSS_ONLY])


\* C22: _post does not retry an HTTP 4xx status other than 429: a request that
\* met one is the last request of its _post call; and a _post call makes at
\* most max_retries + 1 requests.
C22_NoRetryOn4xx ==
    /\ \A k \in 1..Len(aic.resps) : aic.resps[k] = "4xx" => k = Len(aic.resps)
    /\ Len(aic.resps) <= PostAttempts(aic.max_retries)

\* C23: summarize returns a SummaryResult without raising in both degraded
\* cases: an unconfigured client returns the local truncation and makes no
\* request; a response whose content is not JSON gives the plain content as
\* the summary text.
C23_DegradedCasesReturn ==
    aic.pc = "done" =>
        /\ ~aic.configured =>
              /\ aic.outcome = "returned" /\ aic.summary_text = "truncated"
              /\ aic.requests = 0
        /\ aic.content = "plain" =>
              aic.outcome = "returned" /\ aic.summary_text = "plain"


\* the effective chunk size and overlap of the call in chk
ChkC == EffectiveChunk(chk.chunk_chars)
ChkO == EffectiveOverlap(ChkC, chk.chunk_overlap_chars)

CeilDiv(a, b) == (a + b - 1) \div b

\* C27: for a non-empty text of length L, effective chunk size C and effective
\* overlap O (0 <= O < C), _chunk_text terminates and returns exactly one
\* chunk when L <= C and ceil((L - O) / (C - O)) chunks when L > C.
C27_ChunkCount ==
    (chk.chunks # None /\ chk.n > 0) =>
        LET chunks == chk.chunks[1]
        IN /\ 0 <= ChkO /\ ChkO < ChkC
           /\ Len(chunks) > 0
           /\ \A k \in 1..Len(chunks) : chunks[k][1] < chunks[k][2]
           /\ Len(chunks) = IF chk.n <= ChkC THEN 1
                            ELSE CeilDiv(chk.n - ChkO, ChkC - ChkO)

C27_Witness ==
    /\ chk.chunks # None /\ chk.n > ChkC /\ ChkO > 0
    /\ Len(chk.chunks[1]) = 3

\* a chunk without its first o characters (Python's chunk[o:])
StripLeading(chunk, o) == <<Min2(chunk[1] + o, chunk[2]), chunk[2]>>

\* the first chunk, then every later chunk without its leading overlap
Pieces(chunks, o) ==
    [k \in 1..Len(chunks) |-> IF k = 1 THEN chunks[k] ELSE StripLeading(chunks[k], o)]

\* C28: the first chunk followed by every later chunk stripped of its leading
\* O characters is the text exactly: the pieces are text[0:e1], text[e1:e2],
\* ..., text[ek:L], each starting where the one before it ended. (For a text of
\* pairwise distinct characters no other cut concatenates to the text.)
C28_ChunksRoundTrip ==
    chk.chunks # None =>
        LET pieces == Pieces(chk.chunks[1], ChkO)
        IN /\ Len(pieces) = 0 <=> chk.n = 0
           /\ Len(pieces) > 0 =>
                 /\ pieces[1][1] = 0
                 /\ pieces[Len(pieces)][2] = chk.n
                 /\ \A k \in 1..(Len(pieces) - 1) : pieces[k + 1][1] = pieces[k][2]
                 /\ \A k \in 1..Len(pieces) : pieces[k][1] <= pieces[k][2]

C28_Witness ==
    /\ chk.chunks # None /\ ChkO > 1 /\ Len(chk.chunks[1]) >= 2
    /\ chk.chunks[1][2][1] + ChkO = chk.chunks[1][1][2]


\* a keyword occurs in a string, whatever the case of the letters
Occurs(kw, str) ==
    /\ Len(kw) > 0
    /\ \E i \in 1..Len(str) :
          /\ i + Len(kw) - 1 <= Len(str)
          /\ \A j \in 1..Len(kw) : Fold(str[i + j - 1]) = Fold(kw[j])

\* some keyword of the list occurs in the title or in the text of the call
AnyOccurs(kws) ==
    \E k \in 1..Len(kws) : Occurs(kws[k], rcall.title) \/ Occurs(kws[k], rcall.text)

\* some blocked-title pattern matches the title of the call
TitleBlocked ==
    \E k \in 1..Len(rcall.rules.block_title_regex) :
        Occurs(rcall.rules.block_title_regex[k], rcall.title)

\* C24: score returns BLACKLIST whenever a blacklist keyword occurs in title or
\* text or a blocked-title pattern matches the title, whatever the whitelist
\* and the other rules say; it returns WHITELIST whenever a whitelist keyword
\* occurs and no blacklist rule matched; either way the total is the sentinel,
\* not the total of the weighted rules.
C24_ShortCircuits ==
    rcall.result # None =>
        LET res == rcall.result[1]
            black == AnyOccurs(rcall.rules.blacklist) \/ TitleBlocked
        IN /\ black => res.decision = "BLACKLIST" /\ res.score_total = BlacklistScore
           /\ (~black /\ AnyOccurs(rcall.rules.whitelist)) =>
                 res.decision = "WHITELIST" /\ res.score_total = WhitelistScore

C24_Witness ==
    /\ rcall.result # None
    /\ AnyOccurs(rcall.rules.blacklist) /\ AnyOccurs(rcall.rules.whitelist)
    /\ rcall.result[1].decision = "BLACKLIST"


\* labels of kind y among the rows whose score is at least t
RECURSIVE CountFrom(_, _, _)
CountFrom(g, t, y) ==
    IF g = <<>> THEN 0
    ELSE (IF Head(g).score >= t /\ Head(g).y = y THEN Head(g).n ELSE 0)
         + CountFrom(Tail(g), t, y)

\* F1 of "useful iff score >= t" on the history g, as numerator and denominator
F1Num(g, t) == 2 * CountFrom(g, t, 1)
F1Den(g, t) == 2 * CountFrom(g, t, 1) + CountFrom(g, t, 0)
                 + (TotalPos(g) - CountFrom(g, t, 1))

\* F1 at cutoff a is at most / equal to F1 at cutoff b
F1Leq(g, a, b) == F1Num(g, a) * F1Den(g, b) <= F1Num(g, b) * F1Den(g, a)
F1Eq(g, a, b) == F1Num(g, a) * F1Den(g, b) = F1Num(g, b) * F1Den(g, a)

BothKinds(g) == TotalPos(g) > 0 /\ TotalPos(g) < GroupRows(g)

\* C25: for every label history with at least one useful and one useless
\* label, the threshold returned is an observed score whose F1 (useful iff
\* score >= threshold, so equal scores fall on the same side) is maximal among
\* the observed scores, and the highest of the scores with that F1.
C25_BestThresholdMaximisesF1 ==
    (tcall.result # None /\ BothKinds(tcall.labeled)) =>
        LET g == tcall.labeled
            t == tcall.result[1]
        IN /\ t \in ScoresOf(g)
           /\ \A u \in ScoresOf(g) : F1Leq(g, u, t)
           /\ \A u \in ScoresOf(g) : F1Eq(g, u, t) => u <= t

\* a history where two cutoffs share the maximal F1
C25_Witness ==
    /\ tcall.result # None /\ BothKinds(tcall.labeled)
    /\ \E u \in ScoresOf(tcall.labeled) :
          u < tcall.result[1] /\ F1Eq(tcall.labeled, u, tcall.result[1])

\* C26: an empty label history and a history without useful labels give
\* +infinity; a history whose labels are all useful gives the lowest observed
\* score.
C26_ThresholdEdgeCases ==
    tcall.result # None =>
        LET g == tcall.labeled
            t == tcall.result[1]
        IN /\ g = <<>> => t = Inf
           /\ TotalPos(g) = 0 => t = Inf
           /\ (g # <<>> /\ TotalPos(g) = GroupRows(g)) =>
                 t \in ScoresOf(g) /\ \A u \in ScoresOf(g) : t <= u

C26_Witness ==
    /\ tcall.result # None /\ tcall.labeled # <<>>
    /\ TotalPos(tcall.labeled) = 0
    /\ Cardinality(ScoresOf(tcall.labeled)) > 1
    /\ tcall.result[1] = Inf


\* C30: every request sent to the monitored site is preceded by a limiter
\* grant of its own, the repeated GETs of the HTTP method and the browser
\* attempt that follows included, so two consecutive requests are at least the
\* minimum interval apart.
C30_EveryRequestHasItsGrant ==
    /\ fcall.requests <= fcall.acquires
    /\ Len(svc.reqs) = 2 => svc.reqs[2] - svc.reqs[1] >= limiter._min_interval


\* the callers inside the critical section of acquire()
InCritical == {c \in Callers : acq.pc[c] = "sleep"}

\* C29: however concurrent acquire() calls on the shared limiter interleave,
\* two consecutive grants are at least the minimum interval apart, and at most
\* one caller at a time is between reading and setting the next-allowed time.
C29_ConcurrentGrantsSpaced ==
    /\ Len(svc.grants) = 2 => svc.grants[2] - svc.grants[1] >= limiter._min_interval
    /\ Cardinality(InCritical) <= 1

\* two grants one positive interval apart, made while the other caller was
\* waiting for the lock that the sleeping caller held
C29_Witness ==
    /\ Len(svc.grants) = 2
    /\ limiter._min_interval = MaxInterval
    /\ svc.grants[2] - svc.grants[1] = limiter._min_interval
    /\ \E c \in Callers : acq.pc[c] = "lock"


\* the stage a position of process_one belongs to: 1 fetch, 2 summarize,
\* 3 score, 4 deliver; 0 between two runs
StageOf(where) ==
    IF where \in {"crawl", "save_content", "set_failed", "add_fetch_attempt"} THEN 1
    ELSE IF where \in {"load_summary", "summarize", "save_summary"} THEN 2
    ELSE IF where = "score" THEN 3
    ELSE IF where \in {"decide", "has_delivery", "send", "record_delivery", "set_ignored",
                       "update_fingerprint"} THEN 4
    ELSE 0

\* the place of a status on NEW/FAILED -> FETCHED -> SUMMARIZED -> SCORED ->
\* NOTIFIED|IGNORED
StatusRank(st) ==
    IF st \in {STATUS_NEW, STATUS_FAILED} THEN 0
    ELSE IF st = STATUS_FETCHED THEN 1
    ELSE IF st = STATUS_SUMMARIZED THEN 2
    ELSE IF st = STATUS_SCORED THEN 3
    ELSE 4

\* a step of worker w inside a run (not its first and not its last step)
RunStep(w) == pc[w] # "idle" /\ pc'[w] # "idle"

\* C32: within one process_one run the stages follow each other in the order
\* fetch, summarize, score, deliver, and every status the run writes is at the
\* same place or further along NEW/FAILED -> FETCHED -> SUMMARIZED -> SCORED ->
\* NOTIFIED|IGNORED than the status the item had before the write.
C32_StagesAndStatusesForward ==
    [][\A w \in workers :
          (pc[w] # "idle" /\ pc' # pc) =>
              /\ RunStep(w) => StageOf(pc'[w]) >= StageOf(pc[w])
              /\ Post(w) \in DOMAIN posts =>
                    StatusRank(posts'[Post(w)].status) >= StatusRank(posts[Post(w)].status)]_vars

\* a run that fetched, summarized and scored has sent the item and written
\* NOTIFIED
C32_Witness ==
    \E w \in workers :
        /\ pc[w] = "update_fingerprint"
        /\ run[w].tried_fulltext /\ run[w].summary = "fresh"
        /\ Post(w) \in DOMAIN posts /\ posts[Post(w)].status = STATUS_NOTIFIED


\* C33: every fetch attempt the crawler made during a run has been appended to
\* the item's fetch-attempt log once the run is past its recording loop,
\* whether the crawler call returned or raised.
C33_EveryAttemptLogged ==
    \A w \in workers : StageOf(pc[w]) >= 2 => run[w].recorded = run[w].made


Reversed(g) == [i \in 1..Len(g) |-> g[Len(g) + 1 - i]]

\* the limit most recently given of the label rows g (g in labeled_at order)
MostRecent(g, limit) == Reversed(LimitRows(Reversed(g), limit))

\* C34: when more labels exist than the 10,000-label window, the threshold
\* _should_deliver computes is the one of the most recently given labels: the
\* labels left out are the oldest ones.
C34_WindowIsMostRecent ==
    [][\A w \in workers :
          (pc[w] = "decide" /\ pc'[w] \in {"has_delivery", "set_ignored"}
           /\ run'[w].threshold # None)
              => run'[w].threshold[1] =
                    _compute_best_threshold(
                        MostRecent(labelHist.groups \o JoinScores(labels, scores),
                                   _MIN_LABELS_TO_AUTOFILTER))]_vars

\* the run's full-text decision is made and acted on
AttemptDone == acall.pc = "done" /\ acall.result # None
\* the feed-only pre-score is WHITELIST or within delta of the static threshold
PreScoreNear ==
    \/ acall.input.pre.decision = "WHITELIST"
    \/ acall.input.pre.score_total >= score_threshold - acall.input.delta

\* C35: the crawler is not called when full text is globally disabled, no
\* cookie is configured, the crawler has disabled itself or the policy is
\* never; under near_threshold it is called exactly when the feed-only
\* pre-score decision is WHITELIST or its score is at least the static
\* threshold minus the configured delta.
C35_CrawlerCalledOnlyWhenAllowed ==
    AttemptDone =>
        /\ (\/ ~acall.input.fulltext_enabled \/ ~acall.input.cookie
            \/ acall.input.fulltext_disabled \/ acall.input.policy = "never")
              => acall.crawler_calls = 0
        /\ (/\ acall.input.fulltext_enabled /\ acall.input.cookie
            /\ ~acall.input.fulltext_disabled /\ acall.input.policy = "near_threshold")
              => (acall.crawler_calls = 1 <=> PreScoreNear)
C35_Witness ==
    /\ AttemptDone /\ acall.input.policy = "near_threshold"
    /\ acall.input.fulltext_enabled /\ acall.input.cookie /\ ~acall.input.fulltext_disabled
    /\ acall.input.pre.decision = "IGNORE" /\ acall.input.delta = 8
    /\ acall.crawler_calls = 1

\* the post rows a step deletes
DeletedPosts == DOMAIN posts \ DOMAIN posts'
\* q was last updated before p
UpdatedBefore(q, p) ==
    \E a, b \in 1..Len(updOrder) : a < b /\ updOrder[a] = q /\ updOrder[b] = p

\* C36: retention cleanup never deletes a post row whose status is NEW or
\* FAILED; the rows it deletes have status FETCHED, SUMMARIZED, SCORED,
\* NOTIFIED or IGNORED and are the ones older than a cutoff: a row in one of
\* these statuses that was last updated before a deleted row is deleted too.
C36_CleanupKeepsQueuedRows ==
    [][\A p \in DeletedPosts :
          /\ posts[p].status \notin {STATUS_NEW, STATUS_FAILED}
          /\ posts[p].status \in {STATUS_FETCHED, STATUS_SUMMARIZED, STATUS_SCORED,
                                  STATUS_NOTIFIED, STATUS_IGNORED}
          /\ \A q \in DOMAIN posts :
                (UpdatedBefore(q, p) /\ posts[q].status \notin {STATUS_NEW, STATUS_FAILED})
                    => q \in DeletedPosts]_vars
\* a cleanup has deleted a post row and a FAILED row is still there
C36_Witness ==
    /\ cleanups > 0 /\ pruned # {}
    /\ \E p \in DOMAIN posts : posts[p].status = STATUS_FAILED

\* the status and the content, summary, score, delivery and label rows of a post
ProcessingRows(ps, cs, sums, scs, dels, lbls, id) ==
    [status |-> ps[id].status, source_confidence |-> ps[id].source_confidence,
     content |-> id \in cs, summary |-> id \in sums,
     score |-> IF id \in DOMAIN scs THEN Some(scs[id]) ELSE None,
     deliveries |-> dels[id],
     labels |-> SelectSeq(lbls, LAMBDA l : l.post_id = id)]

\* C39: upsert_from_feed on an item that already has a post row changes
\* neither the status of any row nor its content, summary, score, delivery or
\* label rows; in particular a re-announced NOTIFIED or IGNORED item is not
\* put back in the queue that take_next_for_processing reads.
C39_ReannounceKeepsProcessingState ==
    [][\A item \in ReannounceItems :
          (UpsertFromFeed(item) /\ UpsertTarget(posts, item) # NoPost) =>
              /\ DOMAIN posts' = DOMAIN posts
              /\ \A id \in DOMAIN posts :
                    /\ ProcessingRows(posts', contents', ai_summaries', scores',
                                      deliveries', labels', id)
                         = ProcessingRows(posts, contents, ai_summaries, scores,
                                          deliveries, labels, id)
                    /\ QueuedIn(posts', id) <=> QueuedIn(posts, id)
              /\ posts[UpsertTarget(posts, item)].status \in {STATUS_NOTIFIED, STATUS_IGNORED}
                    => TakeNextForProcessing(posts', updOrder') # UpsertTarget(posts, item)]_vars
\* a NOTIFIED item with a delivery row was announced again under a new title
C39_Witness ==
    \E id \in DOMAIN posts :
        /\ posts[id].status = STATUS_NOTIFIED /\ deliveries[id] > 0
        /\ posts[id].title # FeedItem(1).title
        /\ \A w \in workers : ~Running(w)

\* the state reset_post leaves a post in
FreshlyReset(p) ==
    /\ posts[p].status = STATUS_NEW /\ posts[p].source_confidence = CONF_RSS_ONLY
    /\ p \notin contents /\ p \notin ai_summaries /\ p \notin DOMAIN scores
    /\ fetch_attempts[p] = 0 /\ deliveries[p] = 0

\* C40: once reset_post(id) has committed the item has status NEW and
\* confidence RSS_ONLY with no content, summary, score, fetch-attempt or
\* delivery rows until a later run takes it, also when the reset commits while
\* a run on the item is in flight: with one process_one at a time, as long as
\* the run that was in flight at the reset has not ended, no later run has
\* taken the item and the item is as reset_post left it.
C40_ResetSurvivesRunInFlight ==
    \A w \in workers :
        (Running(w) /\ run[w].stale /\ Post(w) \in DOMAIN posts) => FreshlyReset(Post(w))

\* take_next_for_processing finds no NEW or FAILED row
QueueEmpty == \A p \in DOMAIN posts : ~QueuedIn(posts, p)

\* C38: a process_one run that took an item and returns normally, one run at
\* a time and with no delivery row for the item when the run took it, leaves
\* the item NOTIFIED or IGNORED; and whenever the queue of NEW and FAILED items
\* is not empty it becomes empty later, the feed announcing a bounded set of
\* items and no storage write or send failing.
C38_RunsFinishItemsAndQueueDrains ==
    /\ [][\A w \in workers :
            (Running(w) /\ Post(w) # NoPost /\ pc'[w] = "idle") =>
                posts'[Post(w)].status \in {STATUS_NOTIFIED, STATUS_IGNORED}]_vars
    /\ (~QueueEmpty ~> QueueEmpty)
\* both feed items were processed, one sent after a failed fetch, and the queue
\* is empty
C38_Witness ==
    /\ DOMAIN posts = {1, 2} /\ QueueEmpty
    /\ \A w \in workers : ~Running(w)
    /\ \E p \in DOMAIN posts : posts[p].status = STATUS_NOTIFIED /\ sent[p] = 1
    /\ \E p \in DOMAIN posts : posts[p].status = STATUS_IGNORED

\* C37: for a text longer than the ceiling, when the endpoint answers every
\* request of the call with a 2xx response, summarize has issued one
\* summarization per chunk, in chunk order, then exactly one merge call, and
\* returns; when the request of a chunk call is not answered so, no merge call
\* is issued and summarize raises. Calls are never issued out of this order.
C37_ChunkCallsThenOneMerge ==
    chk.outcome # "none" =>
        LET n == Len(chk.chunks[1])
            calls == chk.calls
        IN /\ Len(calls) <= n + 1
           /\ \A k \in 1..Len(calls) : calls[k].call = IF k <= n THEN k ELSE MergeCall
           /\ (\A k \in 1..Len(calls) : calls[k].ok) =>
                 /\ Len(calls) = n + 1
                 /\ chk.outcome = "returned"
           /\ (\E k \in 1..Len(calls) : k <= n /\ ~calls[k].ok) =>
                 /\ Len(calls) <= n
                 /\ chk.outcome = "raised"

\* C31: when fetch_best_effort calls overlap, the disable state is at least as
\* strong as the strongest disablement a call triggered: once a call has met an
\* anti-bot page under the stop policy the crawler stays disabled for good,
\* whatever the overlapping calls meet afterwards.
C31_PermanentDisableSurvivesOverlap ==
    svc.antibotAt # None => crawler._disabled_forever
====
